---- MODULE Spec2Model ----
(***************************************************************************)
(* Model of the parallel ingestion pipeline of scripts/load_xml.py:        *)
(* streaming extraction, batching, intra-batch deduplication, the          *)
(* deadlock-tolerant bulk upsert and the worker pool coordinator.          *)
(*                                                                         *)
(* Encodings.  A text is a sequence of character codes: the digits 0..9    *)
(* stand for themselves, so the serial "10" is <<1, 0>> and Python's       *)
(* string order is the lexicographic order of the sequences.  A date is    *)
(* the integer YYYYMMDD, whose order is the calendar order; Python's None   *)
(* in a date position is NoneDate.  A record (a Python dict) is a function  *)
(* from key names to values; a key the dict lacks is outside its DOMAIN.    *)
(***************************************************************************)
EXTENDS Integers, Sequences, FiniteSets, TLC

(***************************************************************************)
(* Bounds of the model.                                                    *)
(***************************************************************************)
MaxBatchLen == 3      \* longest batch given to _deduplicate_records alone
MaxUpsertLen == 2     \* longest batch given to upsert_batch alone
NumWorkers == 2       \* worker processes of the pool
MaxClock == 1         \* the database clock runs from 0 to MaxClock
NumFiles == 2         \* files handed to process_files_parallel
MaxFaults == 1        \* failures the database raises in a run of the pipeline
MaxGroups == 2        \* classification groups of an element parsed alone

(***************************************************************************)
(* Program constants.                                                      *)
(***************************************************************************)
max_retries == 5      \* upsert_batch(records, max_retries=5)
BATCH_SIZE == 2       \* BATCH_SIZE, set through the environment

(***************************************************************************)
(* Values.                                                                 *)
(***************************************************************************)
NoneDate == 0
NoneText == <<>>
min_date == 18000101

SetToSeqLen(S, n) == [1..n -> S]
SeqsUpTo(S, n) == UNION {SetToSeqLen(S, k) : k \in 0..n}

RECURSIVE StrLess(_, _)
StrLess(a, b) ==
    IF a = <<>> THEN b # <<>>
    ELSE IF b = <<>> THEN FALSE
    ELSE IF Head(a) # Head(b) THEN Head(a) < Head(b)
    ELSE StrLess(Tail(a), Tail(b))

Get(r, k, default) == IF k \in DOMAIN r THEN r[k] ELSE default


(***************************************************************************)
(* parse_date and parse_case_file.  An element is given by the texts of    *)
(* its children; header is FALSE when it has no case-file-header.          *)
(***************************************************************************)
IsDigit(c) == c \in 0..9

IsLeap(y) == y % 4 = 0 /\ (y % 100 # 0 \/ y % 400 = 0)

DaysInMonth(y, m) ==
    IF m = 2 THEN (IF IsLeap(y) THEN 29 ELSE 28)
    ELSE IF m \in {4, 6, 9, 11} THEN 30 ELSE 31

\* datetime.strptime(s, '%Y%m%d').date() for a text of 8 characters, NoneDate
\* where it raises ValueError.  %Y takes four digits, %m two digits 01..12,
\* %d two digits 01..31 or a space and one digit.
strptime_Ymd(s) ==
    IF ~(\A i \in 1..6 : IsDigit(s[i])) THEN NoneDate
    ELSE LET y == s[1] * 1000 + s[2] * 100 + s[3] * 10 + s[4]
             m == s[5] * 10 + s[6]
             d == IF IsDigit(s[7]) /\ IsDigit(s[8]) THEN s[7] * 10 + s[8]
                  ELSE IF s[7] = 32 /\ s[8] \in 1..9 THEN s[8]
                  ELSE 0
         IN  IF y >= 1 /\ m \in 1..12 /\ d >= 1 /\ d <= DaysInMonth(y, m)
             THEN y * 10000 + m * 100 + d
             ELSE NoneDate

parse_date(date_str) ==
    IF date_str = NoneText \/ date_str = <<0>> \/ Len(date_str) # 8
    THEN NoneDate
    ELSE strptime_Ymd(date_str)

\* str.strip(): the text without its leading and trailing whitespace; 32 is
\* the space and 10 the newline.
IsSpace(c) == c \in {10, 32}

RECURSIVE lstrip(_)
lstrip(text) ==
    IF text # <<>> /\ IsSpace(Head(text)) THEN lstrip(Tail(text)) ELSE text

RECURSIVE rstrip(_)
rstrip(text) ==
    IF text # <<>> /\ IsSpace(text[Len(text)])
    THEN rstrip(SubSeq(text, 1, Len(text) - 1)) ELSE text

strip(text) == rstrip(lstrip(text))

\* get_text, given the text of the child the tag names, NoneText when the
\* element has no such child or the child is empty: child.text.strip().  None
\* and the empty string, both false in a condition, are both NoneText.
get_text(child_text) ==
    IF child_text # NoneText THEN strip(child_text) ELSE NoneText

\* get_bool: text == 'T' if text else False
get_bool(child_text) == get_text(child_text) = <<84>>

NoRecord == <<>>

PlaceholderRegistration == <<0, 0, 0, 0, 0, 0, 0>>

\* A record that keeps the registration number whatever it is.
KeepPlaceholder(registration) == registration

\* if record['registration_number'] == '0000000': ... = None
SkipPlaceholder(registration) ==
    IF registration = PlaceholderRegistration THEN NoneText ELSE registration

\* get_all_text, given the texts of the children the tag names: the
\* stripped text of every child that has one.
get_all_text(child_texts) ==
    LET kept == SelectSeq(child_texts, LAMBDA t : t # NoneText)
    IN  [i \in 1..Len(kept) |-> strip(kept[i])]

\* intl_classes or us_classes after the loop over the classification groups
\* of the element's classifications child: extend() with each group's codes.
RECURSIVE extend(_, _)
extend(groups, tag) ==
    IF groups = <<>> THEN <<>>
    ELSE extend(SubSeq(groups, 1, Len(groups) - 1), tag)
         \o get_all_text(groups[Len(groups)][tag])

\* A list that holds the codes as they were read.
ListAsRead(values) == {values}

\* list(set(values)): each distinct value once, in an order the build
\* chooses; the set of the lists it can be.
ListOfSet(values) ==
    LET distinct == {values[i] : i \in 1..Len(values)}
    IN  { q \in [1..Cardinality(distinct) -> distinct] :
            \A v \in distinct : \E i \in 1..Cardinality(distinct) : q[i] = v }

\* None in the place of a list.
NoneList == <<>>

\* list(set(intl_classes)) if intl_classes else None
classes(values) == IF values # <<>> THEN ListOfSet(values) ELSE {NoneList}

\* The record with the keys of the classifications added.
WithClasses(record, intl, us) ==
    [k \in DOMAIN record \cup {"international_classes", "us_classes"} |->
        IF k = "international_classes" THEN intl
        ELSE IF k = "us_classes" THEN us
        ELSE record[k]]

\* owners: one dict per case-file-owner of the element's case-file-owners,
\* of whose keys the entry number and the party name are kept here.
case_file_owners(elem) ==
    LET found == Get(elem, "owners", <<>>)
    IN  [i \in 1..Len(found) |->
            [entry_number |-> get_text(found[i].entry_number),
             party_name |-> get_text(found[i].party_name)]]

\* statements: one dict per case-file-statement that has both a type code
\* and a text.
case_file_statements(elem) ==
    LET found == Get(elem, "statements", <<>>)
        read == [i \in 1..Len(found) |->
                    [type_code |-> get_text(found[i].type_code),
                     text |-> get_text(found[i].text)]]
    IN  SelectSeq(read, LAMBDA st : st.type_code # NoneText /\ st.text # NoneText)

\* The keys of the record that come from the element's own children, from
\* its case-file-header, its owners and its statements.
parse_case_file(elem) ==
    LET serial == get_text(elem.serial_number)
    IN  IF serial = NoneText THEN NoRecord
        ELSE LET base ==
                     [serial_number |-> serial,
                      registration_number |->
                          SkipPlaceholder(get_text(elem.registration_number)),
                      transaction_date |->
                          parse_date(get_text(elem.transaction_date)),
                      owners |-> case_file_owners(elem),
                      statements |-> case_file_statements(elem)]
             IN  IF elem.header
                 THEN [k \in DOMAIN base \cup {"mark_identification",
                                                "standard_characters",
                                                "status_date"} |->
                         IF k \in DOMAIN base THEN base[k]
                         ELSE IF k = "mark_identification"
                              THEN get_text(elem.mark_identification)
                         ELSE IF k = "standard_characters"
                              THEN get_bool(elem.standard_characters)
                         ELSE parse_date(get_text(elem.status_date))]
                 ELSE base

(***************************************************************************)
(* _deduplicate_records                                                    *)
(***************************************************************************)
date_key(r) ==
    LET td == Get(r, "transaction_date", NoneDate)
        sd == Get(r, "status_date", NoneDate)
    IN  << IF td # NoneDate THEN td ELSE min_date,
           IF sd # NoneDate THEN sd ELSE min_date >>

KeyLess(k1, k2) == k1[1] < k2[1] \/ (k1[1] = k2[1] /\ k1[2] < k2[2])

\* A sort that is not stable: an entry goes in front of the entries whose key
\* equals its own.
RECURSIVE InsertBeforeEqual(_, _)
InsertBeforeEqual(e, sorted) ==
    IF sorted = <<>> THEN <<e>>
    ELSE IF ~KeyLess(date_key(e), date_key(Head(sorted)))
         THEN <<e>> \o sorted
         ELSE <<Head(sorted)>> \o InsertBeforeEqual(e, Tail(sorted))

\* list.sort(key=date_key, reverse=True): a stable sort, entries of equal key
\* keep their order.  Insertion of e behind every entry whose key is >= its own.
RECURSIVE InsertDesc(_, _)
InsertDesc(e, sorted) ==
    IF sorted = <<>> THEN <<e>>
    ELSE IF KeyLess(date_key(Head(sorted)), date_key(e))
         THEN <<e>> \o sorted
         ELSE <<Head(sorted)>> \o InsertDesc(e, Tail(sorted))

RECURSIVE SortNewestFirst(_)
SortNewestFirst(entries) ==
    IF entries = <<>> THEN <<>>
    ELSE InsertDesc(entries[Len(entries)],
                    SortNewestFirst(SubSeq(entries, 1, Len(entries) - 1)))

\* by_serial: the serials in order of first occurrence (dict insertion order)
\* and, per serial, its entries in batch order.
RECURSIVE SerialsInOrder(_)
SerialsInOrder(records) ==
    IF records = <<>> THEN <<>>
    ELSE LET front == SerialsInOrder(SubSeq(records, 1, Len(records) - 1))
             s == records[Len(records)].serial_number
         IN  IF \E i \in 1..Len(front) : front[i] = s THEN front
             ELSE Append(front, s)

EntriesOf(records, serial) ==
    SelectSeq(records, LAMBDA r : r.serial_number = serial)

_deduplicate_records(records) ==
    LET serials == SerialsInOrder(records)
    IN  [i \in 1..Len(serials) |->
            LET entries == EntriesOf(records, serials[i])
            IN  IF Len(entries) = 1 THEN entries[1]
                ELSE SortNewestFirst(entries)[1]]


(***************************************************************************)
(* _do_upsert: the statement's values and its effect on the table.         *)
(***************************************************************************)
\* sorted(unique_records, key=lambda r: r['serial_number']): a stable sort by
\* the string order of the serial numbers.
RECURSIVE InsertBySerial(_, _)
InsertBySerial(e, sorted) ==
    IF sorted = <<>> THEN <<e>>
    ELSE IF StrLess(e.serial_number, Head(sorted).serial_number)
         THEN <<e>> \o sorted
         ELSE <<Head(sorted)>> \o InsertBySerial(e, Tail(sorted))

RECURSIVE SortBySerial(_)
SortBySerial(records) ==
    IF records = <<>> THEN <<>>
    ELSE InsertBySerial(records[Len(records)],
                        SortBySerial(SubSeq(records, 1, Len(records) - 1)))

Unsorted(records) == records

sorted_records(unique_records) == SortBySerial(unique_records)

\* The columns the statement maps, other than the key.
MappedColumns ==
    {"registration_number", "transaction_date", "mark_identification",
     "standard_characters", "status_date"}

\* One tuple of trademark_values: r.get(column), False for an absent flag.
ValuesOf(r) ==
    [serial_number |-> r.serial_number,
     registration_number |-> Get(r, "registration_number", NoneText),
     transaction_date |-> Get(r, "transaction_date", NoneDate),
     mark_identification |-> Get(r, "mark_identification", NoneText),
     standard_characters |-> Get(r, "standard_characters", FALSE),
     status_date |-> Get(r, "status_date", NoneDate)]

trademark_values(records) ==
    LET sorted == sorted_records(_deduplicate_records(records))
    IN  [i \in 1..Len(sorted) |-> ValuesOf(sorted[i])]

\* INSERT ... VALUES (..., CURRENT_TIMESTAMP): the row a tuple inserts.
InsertedRow(values, ts) ==
    [serial_number |-> values.serial_number,
     registration_number |-> values.registration_number,
     transaction_date |-> values.transaction_date,
     mark_identification |-> values.mark_identification,
     standard_characters |-> values.standard_characters,
     status_date |-> values.status_date,
     updated_at |-> ts]

\* A field-by-field merge that keeps the stored value where the incoming one
\* is null.
MergedRow(old, values, ts) ==
    [serial_number |-> old.serial_number,
     registration_number |->
        IF values.registration_number = NoneText THEN old.registration_number
        ELSE values.registration_number,
     transaction_date |->
        IF values.transaction_date = NoneDate THEN old.transaction_date
        ELSE values.transaction_date,
     mark_identification |->
        IF values.mark_identification = NoneText THEN old.mark_identification
        ELSE values.mark_identification,
     standard_characters |-> values.standard_characters,
     status_date |->
        IF values.status_date = NoneDate THEN old.status_date
        ELSE values.status_date,
     updated_at |-> ts]

\* DO UPDATE SET column = EXCLUDED.column, ..., updated_at = CURRENT_TIMESTAMP
UpdatedRow(old, values, ts) ==
    [serial_number |-> old.serial_number,
     registration_number |-> values.registration_number,
     transaction_date |-> values.transaction_date,
     mark_identification |-> values.mark_identification,
     standard_characters |-> values.standard_characters,
     status_date |-> values.status_date,
     updated_at |-> ts]

\* A plain INSERT into a table without the conflict clause.
PlainInsert(table, values, ts) == table \cup {InsertedRow(values, ts)}

\* INSERT ... ON CONFLICT (serial_number) DO UPDATE for one tuple.
OnConflictDoUpdate(table, values, ts) ==
    IF \E t \in table : t.serial_number = values.serial_number
    THEN { IF t.serial_number = values.serial_number
           THEN UpdatedRow(t, values, ts) ELSE t : t \in table }
    ELSE table \cup {InsertedRow(values, ts)}

\* The table once the tuples the transaction wrote are committed.
RECURSIVE ApplyRows(_, _, _)
ApplyRows(table, written, ts) ==
    IF written = <<>> THEN table
    ELSE ApplyRows(OnConflictDoUpdate(table, Head(written), ts),
                   Tail(written), ts)

\* Writes that take effect one by one, outside the transaction.
KeepWritten(table, written, ts) == ApplyRows(table, written, ts)

\* conn.rollback(): the table after the transaction's writes are undone.
Rollback(table, written, ts) == table

(***************************************************************************)
(* upsert_batch: the classification of the errors.                         *)
(***************************************************************************)
NoError == "None"
TransientErrors == {"DeadlockDetected", "LockNotAvailable"}
\* Exceptions caught by except Exception: a database error that is not
\* transient, and an exception raised without arguments.
OtherErrors == {"OperationalError", "MemoryError"}

\* str(e): the message of the exception, empty for one raised without
\* arguments.
str(e) ==
    CASE e = "DeadlockDetected" -> "deadlock detected"
      [] e = "LockNotAvailable" -> "canceling statement due to lock timeout"
      [] e = "OperationalError" -> "server closed the connection unexpectedly"
      [] e = "MemoryError" -> ""
      [] e = "BadZipFile" -> "File is not a zip file"
      [] e = "OSError" -> "[Errno 28] No space left on device"
      [] e = "BrokenProcessPool" -> "A process in the process pool was terminated"

EveryError(e) == TRUE

\* except (psycopg2.errors.DeadlockDetected, psycopg2.errors.LockNotAvailable)
IsTransient(e) == e \in TransientErrors

\* The failures the environment may raise in a run are counted down; a
\* budget of Unlimited is never used up.
Unlimited == 0 - 1

Spend(budget) == IF budget > 0 THEN budget - 1 ELSE budget

\* A delay that grows by one unit with each attempt.
Linear(n) == n + 1

\* 2 ** attempt
RECURSIVE Pow2(_)
Pow2(n) == IF n = 0 THEN 1 ELSE 2 * Pow2(n - 1)

\* random.uniform(0, 1) takes JitterSteps values, k/JitterSteps for k below
\* JitterSteps, and a time is counted in units of 1/JitterSteps.
JitterSteps == 2

Jitter == 0..(JitterSteps - 1)

\* sleep_time = (2 ** attempt) + random.uniform(0, 1), for one jitter
SleepTime(attempt_no, jitter) == Pow2(attempt_no) * JitterSteps + jitter

\* The process is not in time.sleep.
NoSleep == 0

\* A connection that is given up without being closed.
LeaveOpen(open_sessions) == open_sessions

\* conn.close(): the connection's session ends
close(open_sessions) == open_sessions - 1

\* if conn: conn.rollback(); conn.close(), in both except clauses
CloseIfConnected(c, open_sessions) ==
    IF c # "None" THEN close(open_sessions) ELSE open_sessions

\* The statement and owner tables together with the primary table.
EveryTable == {"trademarks", "trademark_statements", "trademark_owners"}

\* The tables the statements of _do_upsert write: the one INSERT is into
\* trademarks.
WrittenTables == {"trademarks"}

\* The rows the owner and statement lists of a batch's records stand for.
StatementRows(batch) ==
    UNION { { [serial_number |-> batch[i].serial_number,
               type_code |-> Get(batch[i], "statements", <<>>)[j].type_code,
               text |-> Get(batch[i], "statements", <<>>)[j].text]
              : j \in 1..Len(Get(batch[i], "statements", <<>>)) }
            : i \in 1..Len(batch) }

OwnerRows(batch) ==
    UNION { { [serial_number |-> batch[i].serial_number,
               entry_number |-> Get(batch[i], "owners", <<>>)[j].entry_number,
               party_name |-> Get(batch[i], "owners", <<>>)[j].party_name]
              : j \in 1..Len(Get(batch[i], "owners", <<>>)) }
            : i \in 1..Len(batch) }

\* A table of the store once the transaction of _do_upsert is committed.
Written(name, table, rows) ==
    IF name \in WrittenTables THEN table \cup rows ELSE table

\* if attempt < max_retries - 1: sleep and go round again, else raise
RetriesLeft(attempt) == attempt < max_retries - 1

(***************************************************************************)
(* Values of the unpack step and of main.                                  *)
(***************************************************************************)
\* No scratch directory, and a scratch directory holding the given entries.
NoDir == <<>>

Dir(entries) == <<entries>>

\* The process has not exited.
Running == 0 - 1

NoArgs == [mode |-> "none", init_db |-> FALSE, workers |-> 0]

(***************************************************************************)
(* State.                                                                  *)
(***************************************************************************)
VARIABLES
    dd_records,      \* _deduplicate_records: the batch passed in
    dd_result,       \* _deduplicate_records: the list returned
    dd_pc,           \* "call" before the function ran, "returned" after
    pcf_elem,        \* parse_case_file: the case-file element passed in
    pcf_record,      \* parse_case_file: the record returned, or NoRecord
    pcf_pc,          \* "call" before the function ran, "parsed" after,
                     \* "stored" once the record was handed to upsert_batch
    pc,              \* per worker: where the process stands
    records,         \* per worker: the buffer of process_xml_file, which is
                     \* the batch upsert_batch is called with
    ret,             \* per worker: who called upsert_batch
    attempt,         \* per worker: upsert_batch's loop variable
    last_error,      \* per worker: upsert_batch's last_error
    conn,            \* per worker: upsert_batch's conn
    slept,           \* per worker: base delays of the backoff sleeps of the call
    exc,             \* per worker: the exception raised in the try block
    inserted,        \* per worker: the value upsert_batch returned
    undone,          \* per worker: rows discarded by the rollback before the raise
    sessions,        \* per worker: database connections it has open
    sleep_time,      \* per worker: upsert_batch's sleep_time while it sleeps,
                     \* in units of 1/JitterSteps, NoSleep otherwise
    trademarks,      \* the committed rows of the primary table
    trademark_statements, \* the committed rows of the statement table
    trademark_owners,     \* the committed rows of the owner table
    tx_rows,         \* per worker: tuples its open transaction has written
    tx_time,         \* per worker: CURRENT_TIMESTAMP of its transaction
    now,             \* the database clock
    seen_store,      \* the table as it was at each call of the sequential caller
    faults_left,     \* failures the database may still raise, or Unlimited
    file,            \* per worker: the path worker_process_file was given
    pos,             \* per worker: elements of the document consumed so far
    total,           \* per worker: total_processed of process_xml_file
    handed,          \* per worker: the batches upsert_batch was called with
                     \* for the current file, in call order
    next_task,       \* index of the next file the pool hands to a worker
    result,          \* per file: the tuple its future completed with
    collected,       \* files whose future the coordinator has taken
    completed,       \* process_files_parallel's completed
    total_processed, \* process_files_parallel's total_processed
    error_files,     \* files the coordinator logged an error for
    parse_errors,    \* files process_xml_file logged a parse error for
    cpc,             \* where process_files_parallel stands
    file_paths,      \* process_files_parallel's file_paths
    num_workers,     \* process_files_parallel's num_workers
    suffix,          \* the extension of the source paths of the run
    scratch,         \* per process: the scratch directory of process_zip_file,
                     \* NoDir or the directory with the entries extracted
    entry,           \* per process: the archive entry process_zip_file is at
    ztotal,          \* per process: total of process_zip_file
    mpc,             \* where main stands
    args,            \* main's command line
    run,             \* "first", or "rerun" for a second run of main
    total_loaded,    \* main's total_loaded
    summary,         \* main has logged its summary report
    exit_status      \* the exit status of the process, Running before

dedupVars == <<dd_records, dd_result, dd_pc>>
parseVars == <<pcf_elem, pcf_record, pcf_pc>>
ubVars == <<attempt, last_error, conn, slept, exc, inserted, undone, sessions,
            sleep_time>>
sideVars == <<trademark_statements, trademark_owners>>
dbVars == <<trademarks, tx_rows, tx_time, now, sideVars>>
paramVars == <<file_paths, num_workers, suffix>>
zipVars == <<scratch, entry, ztotal>>
mainVars == <<mpc, args, run, total_loaded, summary, exit_status>>
pipeVars == <<file, pos, total, handed, next_task, result, collected, completed,
              total_processed, error_files, parse_errors, cpc, paramVars,
              zipVars, mainVars>>
vars == <<dedupVars, parseVars, pc, records, ret, ubVars, dbVars, seen_store, faults_left,
          pipeVars>>

Worker == 1..NumWorkers

(***************************************************************************)
(* upsert_batch and _do_upsert, one worker's call.                         *)
(***************************************************************************)
\* The row lock on a serial is held by the transaction that wrote it.
LockedByOther(w, serial) ==
    \E v \in Worker \ {w} :
        \E j \in 1..Len(tx_rows[v]) : tx_rows[v][j].serial_number = serial

\* if not records: return 0; otherwise the first round of the loop starts
UpsertBatchEnter(w) ==
    /\ pc[w] = "call"
    /\ IF records[w] = <<>>
       THEN /\ pc' = [pc EXCEPT ![w] = "returned"]
            /\ inserted' = [inserted EXCEPT ![w] = 0]
            /\ UNCHANGED <<attempt, last_error, conn, slept, exc, undone>>
       ELSE /\ pc' = [pc EXCEPT ![w] = "connect"]
            /\ attempt' = [attempt EXCEPT ![w] = 0]
            /\ last_error' = [last_error EXCEPT ![w] = NoError]
            /\ conn' = [conn EXCEPT ![w] = "None"]
            /\ slept' = [slept EXCEPT ![w] = <<>>]
            /\ exc' = [exc EXCEPT ![w] = NoError]
            /\ undone' = [undone EXCEPT ![w] = 0]
            /\ UNCHANGED inserted
    /\ UNCHANGED <<pipeVars, dedupVars, parseVars, records, ret, sessions, sleep_time,
                   dbVars, seen_store, faults_left>>

\* The sleep, if there was one, is over: conn = get_db_connection();
\* SET lock_timeout; SET deadlock_timeout
Connect(w) ==
    /\ pc[w] = "connect"
    /\ pc' = [pc EXCEPT ![w] = "write"]
    /\ conn' = [conn EXCEPT ![w] = "open"]
    /\ sessions' = [sessions EXCEPT ![w] = @ + 1]
    /\ sleep_time' = [sleep_time EXCEPT ![w] = NoSleep]
    /\ tx_rows' = [tx_rows EXCEPT ![w] = <<>>]
    /\ tx_time' = [tx_time EXCEPT ![w] = now]
    /\ UNCHANGED <<pipeVars, dedupVars, parseVars, records, ret, attempt, last_error,
                   slept, exc, inserted, undone, trademarks, sideVars, now,
                   seen_store, faults_left>>

\* get_db_connection() raises: conn stays None
ConnectFails(w) ==
    /\ pc[w] = "connect"
    /\ \E e \in OtherErrors : exc' = [exc EXCEPT ![w] = e]
    /\ faults_left # 0
    /\ faults_left' = Spend(faults_left)
    /\ pc' = [pc EXCEPT ![w] = "except"]
    /\ sleep_time' = [sleep_time EXCEPT ![w] = NoSleep]
    /\ UNCHANGED <<pipeVars, dedupVars, parseVars, records, ret, attempt, last_error,
                   conn, slept, inserted, undone, sessions, dbVars, seen_store>>

\* execute_values: the statement writes its next tuple once the row's lock is
\* free, and holds the lock until the transaction ends
WriteRow(w) ==
    /\ pc[w] = "write"
    /\ LET values == trademark_values(records[w])
           i == Len(tx_rows[w]) + 1
       IN  /\ i <= Len(values)
           /\ ~LockedByOther(w, values[i].serial_number)
           /\ tx_rows' = [tx_rows EXCEPT ![w] = Append(@, values[i])]
    /\ UNCHANGED <<pipeVars, dedupVars, parseVars, pc, records, ret, ubVars,
                   trademarks, sideVars, tx_time, now, seen_store, faults_left>>

\* conn.commit(); return len(records); conn.close(); return result
Commit(w) ==
    /\ pc[w] = "write"
    /\ Len(tx_rows[w]) = Len(trademark_values(records[w]))
    /\ trademarks' = ApplyRows(trademarks, tx_rows[w], tx_time[w])
    /\ trademark_statements' = Written("trademark_statements",
                                       trademark_statements,
                                       StatementRows(records[w]))
    /\ trademark_owners' = Written("trademark_owners", trademark_owners,
                                   OwnerRows(records[w]))
    /\ tx_rows' = [tx_rows EXCEPT ![w] = <<>>]
    /\ conn' = [conn EXCEPT ![w] = "closed"]
    /\ sessions' = [sessions EXCEPT ![w] = close(@)]
    /\ inserted' = [inserted EXCEPT ![w] = Len(records[w])]
    /\ pc' = [pc EXCEPT ![w] = "returned"]
    /\ UNCHANGED <<pipeVars, dedupVars, parseVars, records, ret, attempt, last_error,
                   slept, exc, undone, sleep_time, tx_time, now, seen_store,
                   faults_left>>

\* The statement or the commit raises: the database reports a deadlock or a
\* lock timeout (the rows may be locked by sessions outside the run), or the
\* connection fails.
WriteFails(w) ==
    /\ pc[w] = "write"
    /\ \E e \in TransientErrors \cup OtherErrors : exc' = [exc EXCEPT ![w] = e]
    /\ faults_left # 0
    /\ faults_left' = Spend(faults_left)
    /\ pc' = [pc EXCEPT ![w] = "except"]
    /\ UNCHANGED <<pipeVars, dedupVars, parseVars, records, ret, attempt, last_error,
                   conn, slept, inserted, undone, sessions, sleep_time, dbVars,
                   seen_store>>

\* The two except clauses: roll back and close; a transient error sleeps and
\* retries while retries are left; any other error, and the last transient
\* one, is raised to the caller.
Handler(w) ==
    /\ pc[w] = "except"
    /\ trademarks' = Rollback(trademarks, tx_rows[w], tx_time[w])
    /\ tx_rows' = [tx_rows EXCEPT ![w] = <<>>]
    /\ sessions' = [sessions EXCEPT ![w] = CloseIfConnected(conn[w], @)]
    /\ IF IsTransient(exc[w])
       THEN /\ last_error' = [last_error EXCEPT ![w] = exc[w]]
            /\ IF RetriesLeft(attempt[w])
               THEN /\ slept' = [slept EXCEPT ![w] = Append(@, Pow2(attempt[w]))]
                    /\ \E jitter \in Jitter :
                          sleep_time' = [sleep_time EXCEPT ![w] =
                                            SleepTime(attempt[w], jitter)]
                    /\ attempt' = [attempt EXCEPT ![w] = @ + 1]
                    /\ conn' = [conn EXCEPT ![w] = "None"]
                    /\ exc' = [exc EXCEPT ![w] = NoError]
                    /\ pc' = [pc EXCEPT ![w] = "connect"]
                    /\ UNCHANGED undone
               ELSE /\ pc' = [pc EXCEPT ![w] = "raised"]
                    /\ conn' = [conn EXCEPT ![w] =
                                    IF @ = "open" THEN "closed" ELSE @]
                    /\ undone' = [undone EXCEPT ![w] = Len(tx_rows[w])]
                    /\ UNCHANGED <<slept, attempt, exc, sleep_time>>
       ELSE /\ pc' = [pc EXCEPT ![w] = "raised"]
            /\ conn' = [conn EXCEPT ![w] = IF @ = "open" THEN "closed" ELSE @]
            /\ undone' = [undone EXCEPT ![w] = Len(tx_rows[w])]
            /\ UNCHANGED <<last_error, slept, attempt, exc, sleep_time>>
    /\ UNCHANGED <<pipeVars, dedupVars, parseVars, records, ret, inserted, sideVars,
                   tx_time, now, seen_store, faults_left>>

\* Time passes on the database server.  CURRENT_TIMESTAMP is the start time
\* of the transaction, so the time that passes while a transaction is open
\* shows in no row; the clock moves between transactions, the sleeps of the
\* retry loop included.
Tick ==
    /\ now < MaxClock
    /\ \A w \in Worker : conn[w] # "open"
    /\ now' = now + 1
    /\ UNCHANGED <<pipeVars, dedupVars, parseVars, pc, records, ret, ubVars,
                   trademarks, sideVars, tx_rows, tx_time, seen_store,
                   faults_left>>

UpsertBatch(w) ==
    \/ UpsertBatchEnter(w)
    \/ Connect(w)
    \/ ConnectFails(w)
    \/ WriteRow(w)
    \/ Commit(w)
    \/ WriteFails(w)
    \/ Handler(w)

\* No worker is running and nothing is stored.
WorkersIdle ==
    /\ pc = [w \in Worker |-> "idle"]
    /\ records = [w \in Worker |-> <<>>]
    /\ ret = [w \in Worker |-> "none"]
    /\ attempt = [w \in Worker |-> 0]
    /\ last_error = [w \in Worker |-> NoError]
    /\ conn = [w \in Worker |-> "None"]
    /\ slept = [w \in Worker |-> <<>>]
    /\ exc = [w \in Worker |-> NoError]
    /\ inserted = [w \in Worker |-> 0]
    /\ undone = [w \in Worker |-> 0]
    /\ sessions = [w \in Worker |-> 0]
    /\ sleep_time = [w \in Worker |-> NoSleep]
    /\ tx_rows = [w \in Worker |-> <<>>]
    /\ tx_time = [w \in Worker |-> 0]
    /\ now = 0
    /\ seen_store = <<>>
    /\ faults_left = MaxFaults

\* No process is inside process_zip_file.
ZipIdle ==
    /\ scratch = [w \in Worker |-> NoDir]
    /\ entry = [w \in Worker |-> 0]
    /\ ztotal = [w \in Worker |-> 0]

\* main is not running.
MainIdle ==
    /\ mpc = "none"
    /\ args = NoArgs
    /\ run = "first"
    /\ total_loaded = 0
    /\ summary = FALSE
    /\ exit_status = Running

\* process_files_parallel is not running.
PipelineIdle ==
    /\ file = [w \in Worker |-> 0]
    /\ pos = [w \in Worker |-> 0]
    /\ total = [w \in Worker |-> 0]
    /\ handed = [w \in Worker |-> <<>>]
    /\ next_task = 1
    /\ result = <<>>
    /\ collected = {}
    /\ completed = 0
    /\ total_processed = 0
    /\ error_files = {}
    /\ parse_errors = {}
    /\ cpc = "none"
    /\ file_paths = <<>>
    /\ num_workers = 0
    /\ suffix = ".xml"
    /\ ZipIdle
    /\ MainIdle

DedupIdle ==
    /\ dd_records = <<>>
    /\ dd_result = <<>>
    /\ dd_pc = "none"

\* parse_case_file is not checked alone.
ParseIdle ==
    /\ pcf_elem = <<>>
    /\ pcf_record = NoRecord
    /\ pcf_pc = "none"

\* The statement and owner rows an earlier loader left for the stored row;
\* both tables reference the primary table by the serial number.
StoredStatements(table) ==
    { [serial_number |-> t.serial_number, type_code |-> <<71, 83>>,
       text |-> <<79, 76, 68>>] : t \in table }

StoredOwners(table) ==
    { [serial_number |-> t.serial_number, entry_number |-> <<1>>,
       party_name |-> <<79, 76, 68>>] : t \in table }

\* The secondary tables that go with a primary table at the start of a run.
SecondaryTablesOf(table) ==
    /\ trademark_statements = StoredStatements(table)
    /\ trademark_owners = StoredOwners(table)

(***************************************************************************)
(* Specification of _deduplicate_records alone, over every bounded batch.  *)
(***************************************************************************)
TestSerials == {<<1>>, <<2>>}
TestDates == {NoneDate, 17991231, 20240101, 20240601}
TestStatusDates == {NoneDate, 20240315}

\* Records as parse_case_file builds them: the header keys are present only
\* when the element has a case-file-header.
TestRecords ==
    { [serial_number |-> s, transaction_date |-> td, owners |-> <<>>,
       statements |-> <<>>] :
        s \in TestSerials, td \in TestDates }
    \cup
    { [serial_number |-> s, transaction_date |-> td, status_date |-> sd,
       owners |-> <<>>, statements |-> <<>>] :
        s \in TestSerials, td \in TestDates, sd \in TestStatusDates }

InitDedup ==
    /\ dd_records \in SeqsUpTo(TestRecords, MaxBatchLen)
    /\ dd_result = <<>>
    /\ dd_pc = "call"
    /\ ParseIdle
    /\ WorkersIdle
    /\ PipelineIdle
    /\ trademarks = {}
    /\ SecondaryTablesOf({})

Deduplicate ==
    /\ dd_pc = "call"
    /\ dd_result' = _deduplicate_records(dd_records)
    /\ dd_pc' = "returned"
    /\ UNCHANGED <<dd_records, parseVars, pc, records, ret, ubVars, dbVars,
                   seen_store, faults_left, pipeVars>>

NextDedup == Deduplicate

SpecDedup == InitDedup /\ [][NextDedup]_vars

(***************************************************************************)
(* Specification of upsert_batch alone: one caller upserts a batch and     *)
(* then the same batch again, into an empty or a populated table.          *)
(***************************************************************************)
UpsertSerials == {<<1, 0>>, <<2>>}

\* Records of the shapes parse_case_file gives: without the header keys, with
\* every key and value, and with the header keys but no date and no mark.
\* "MARK" and "1234567" are texts.
UpsertRecords ==
    UNION { { [serial_number |-> s, registration_number |-> NoneText,
               transaction_date |-> 20240101, owners |-> <<>>,
               statements |-> <<>>],
              [serial_number |-> s, registration_number |-> <<1, 2, 3, 4, 5, 6, 7>>,
               transaction_date |-> 20240601,
               mark_identification |-> <<77, 65, 82, 75>>,
               standard_characters |-> TRUE, status_date |-> 20240315,
               owners |-> << [entry_number |-> <<1>>,
                              party_name |-> <<65, 67, 77, 69>>] >>,
               statements |-> << [type_code |-> <<71, 83>>,
                                  text |-> <<84, 69, 65>>] >>],
              [serial_number |-> s, registration_number |-> NoneText,
               transaction_date |-> NoneDate,
               mark_identification |-> NoneText,
               standard_characters |-> FALSE, status_date |-> NoneDate,
               owners |-> <<>>, statements |-> <<>>] }
            : s \in UpsertSerials }

\* A row an earlier run left in the table.
StoredRow ==
    [serial_number |-> <<2>>, registration_number |-> <<7, 6, 5, 4, 3, 2, 1>>,
     transaction_date |-> 20240301, mark_identification |-> <<79, 76, 68>>,
     standard_characters |-> TRUE, status_date |-> 20240201, updated_at |-> 0]

InitTables == {{}, {StoredRow}}

Caller == 1

InitUpsert ==
    /\ DedupIdle
    /\ ParseIdle
    /\ PipelineIdle
    /\ pc = [w \in Worker |-> IF w = Caller THEN "call" ELSE "idle"]
    /\ \E batch \in SeqsUpTo(UpsertRecords, MaxUpsertLen) :
          records = [w \in Worker |-> IF w = Caller THEN batch ELSE <<>>]
    /\ ret = [w \in Worker |-> IF w = Caller THEN "again" ELSE "none"]
    /\ attempt = [w \in Worker |-> 0]
    /\ last_error = [w \in Worker |-> NoError]
    /\ conn = [w \in Worker |-> "None"]
    /\ slept = [w \in Worker |-> <<>>]
    /\ exc = [w \in Worker |-> NoError]
    /\ inserted = [w \in Worker |-> 0]
    /\ undone = [w \in Worker |-> 0]
    /\ sessions = [w \in Worker |-> 0]
    /\ sleep_time = [w \in Worker |-> NoSleep]
    /\ tx_rows = [w \in Worker |-> <<>>]
    /\ tx_time = [w \in Worker |-> 0]
    /\ now = 0
    /\ trademarks \in InitTables
    /\ SecondaryTablesOf(trademarks)
    /\ seen_store = <<trademarks>>
    /\ faults_left = Unlimited

\* The caller upserts the same batch a second time.
CallAgain(w) ==
    /\ pc[w] = "returned"
    /\ ret[w] = "again"
    /\ seen_store' = Append(seen_store, trademarks)
    /\ pc' = [pc EXCEPT ![w] = "call"]
    /\ ret' = [ret EXCEPT ![w] = "stop"]
    /\ UNCHANGED <<pipeVars, dedupVars, parseVars, records, ubVars, dbVars, faults_left>>

NextUpsert ==
    \/ \E w \in Worker : UpsertBatch(w)
    \/ \E w \in Worker : CallAgain(w)
    \/ Tick

SpecUpsert == InitUpsert /\ [][NextUpsert]_vars


(***************************************************************************)
(* The files of a run.  File f holds document Doc(f): its case-file        *)
(* elements in order and whether the document is malformed behind them.    *)
(***************************************************************************)
Element(serial, registration, date) ==
    [serial_number |-> serial, registration_number |-> registration,
     transaction_date |-> date, header |-> FALSE]

ElementWithHeader(serial, registration, date, mark, flag, status) ==
    [serial_number |-> serial, registration_number |-> registration,
     transaction_date |-> date, header |-> TRUE, mark_identification |-> mark,
     standard_characters |-> flag, status_date |-> status,
     owners |-> << [entry_number |-> <<1>>, party_name |-> <<65, 67, 77, 69>>] >>,
     statements |-> << [type_code |-> <<71, 83>>, text |-> <<84, 69, 65>>],
                       [type_code |-> <<71, 83>>, text |-> NoneText] >>]

\* A daily file: serial "2" twice, its newer state first; an element without
\* a serial number; an unsorted first batch.
DailyDocument ==
    [elements |->
        << ElementWithHeader(<<2>>, PlaceholderRegistration,
                             <<2, 0, 2, 4, 0, 6, 0, 1>>, <<77, 65, 82, 75>>,
                             <<84>>, <<2, 0, 2, 4, 0, 3, 1, 5>>),
           Element(NoneText, NoneText, <<2, 0, 2, 4, 0, 1, 0, 1>>),
           Element(<<1, 0>>, NoneText, <<2, 0, 2, 4, 0, 1, 0, 1>>),
           Element(<<2>>, NoneText, <<2, 0, 2, 4, 0, 1, 0, 1>>) >>,
     malformed |-> FALSE]

\* A file whose document breaks off after three elements.
CorruptedDocument ==
    [elements |->
        << Element(<<1, 0>>, <<1, 2, 3, 4, 5, 6, 7>>, <<2, 0, 2, 4, 0, 6, 0, 1>>),
           Element(<<2>>, NoneText, <<0>>),
           Element(<<1, 0>>, NoneText, <<2, 0, 2, 4, 0, 2, 3, 0>>) >>,
     malformed |-> TRUE]

\* A file with two states of one serial in one batch.
SmallDocument ==
    [elements |->
        << Element(<<1, 0>>, NoneText, <<2, 0, 2, 4, 0, 3, 0, 1>>),
           ElementWithHeader(<<1, 0>>, NoneText, <<2, 0, 2, 4, 0, 3, 0, 1>>,
                             NoneText, <<70>>, <<2, 0, 2, 4, 0, 3, 1, 5>>) >>,
     malformed |-> FALSE]

Documents == <<DailyDocument, CorruptedDocument, SmallDocument>>

Doc(f) == Documents[((f - 1) % Len(Documents)) + 1]

File == 1..NumFiles

\* The entries of the archive at path f: one that is not an XML document
\* and two that are, the second of them malformed.
Archive(f) ==
    << [xml |-> FALSE],
       [xml |-> TRUE, doc |-> Doc(f)],
       [xml |-> TRUE, doc |-> CorruptedDocument] >>

\* The document process_xml_file reads: the file itself, or the entry
\* process_zip_file has extracted.
CurrentDoc(w) ==
    IF entry[w] = 0 THEN Doc(file[w]) ELSE Archive(file[w])[entry[w]].doc

(***************************************************************************)
(* process_xml_file, process_zip_file and worker_process_file: the task of *)
(* one process.                                                            *)
(***************************************************************************)
NoResult == <<>>

\* The tuple worker_process_file returns; error is NoError or str(e).
ResultTuple(path, count, error) == <<path, count, error>>

\* The parse error reaches worker_process_file as an exception.
ParseErrorRaised(path, count) == ResultTuple(path, 0, "ParseError")

\* except ET.ParseError: the error is logged and the count so far returned
AfterParseError(path, count) == ResultTuple(path, count, NoError)

\* An error result that keeps the count of the batches committed so far.
CountedErrorResult(path, count, e) == ResultTuple(path, count, str(e))

\* except Exception as e: return (file_path, 0, str(e)); count is what
\* process_xml_file had counted when it raised.
ErrorResult(path, count, e) == ResultTuple(path, 0, str(e))

\* A scratch directory that outlives the call.
LeaveBehind(dir) == dir

\* TemporaryDirectory.__exit__: the directory and what it holds are removed.
Cleanup(dir) == NoDir

\* The locals of process_xml_file and of its upsert_batch call are gone.
XmlEnds(w) ==
    /\ pos' = [pos EXCEPT ![w] = 0]
    /\ total' = [total EXCEPT ![w] = 0]
    /\ handed' = [handed EXCEPT ![w] = <<>>]
    /\ records' = [records EXCEPT ![w] = <<>>]
    /\ ret' = [ret EXCEPT ![w] = "none"]
    /\ attempt' = [attempt EXCEPT ![w] = 0]
    /\ last_error' = [last_error EXCEPT ![w] = NoError]
    /\ conn' = [conn EXCEPT ![w] = "None"]
    /\ slept' = [slept EXCEPT ![w] = <<>>]
    /\ exc' = [exc EXCEPT ![w] = NoError]
    /\ inserted' = [inserted EXCEPT ![w] = 0]
    /\ undone' = [undone EXCEPT ![w] = 0]
    /\ sleep_time' = [sleep_time EXCEPT ![w] = NoSleep]
    /\ UNCHANGED sessions

\* The process has no file any more.
ProcessIdle(w) ==
    /\ pc' = [pc EXCEPT ![w] = "idle"]
    /\ file' = [file EXCEPT ![w] = 0]

\* process_zip_file or process_xml_file returns count to its caller: main
\* in the single-path mode logs the summary and ends, worker_process_file
\* returns (file_path, count, None).
CallReturns(w, tuple) ==
    /\ ProcessIdle(w)
    /\ IF mpc = "single"
       THEN /\ total_loaded' = tuple[2]
            /\ summary' = TRUE
            /\ exit_status' = 0
            /\ mpc' = "exited"
            /\ UNCHANGED <<result, args, run>>
       ELSE /\ result' = [result EXCEPT ![file[w]] = tuple]
            /\ UNCHANGED mainVars

\* process_zip_file or process_xml_file raises e: main in the single-path
\* mode has no handler and the interpreter exits with status 1,
\* worker_process_file returns (file_path, 0, str(e)).
CallRaises(w, e) ==
    /\ ProcessIdle(w)
    /\ IF mpc = "single"
       THEN /\ exit_status' = 1
            /\ mpc' = "exited"
            /\ UNCHANGED <<result, args, run, total_loaded, summary>>
       ELSE /\ result' = [result EXCEPT ![file[w]] =
                              ErrorResult(file[w], total[w], e)]
            /\ UNCHANGED mainVars

\* process_xml_file returns: to process_zip_file, which adds the count to
\* its total and removes the extracted file next, or to the caller.
XmlReturns(w, tuple) ==
    /\ XmlEnds(w)
    /\ IF entry[w] # 0
       THEN /\ ztotal' = [ztotal EXCEPT ![w] = @ + tuple[2]]
            /\ pc' = [pc EXCEPT ![w] = "zip_remove"]
            /\ UNCHANGED <<file, result, scratch, entry, mainVars>>
       ELSE /\ CallReturns(w, tuple)
            /\ UNCHANGED zipVars

\* process_xml_file raises: inside process_zip_file the two with blocks are
\* left, which removes the scratch directory, and the exception goes on to
\* the caller.
XmlRaises(w, e) ==
    /\ XmlEnds(w)
    /\ CallRaises(w, e)
    /\ IF entry[w] # 0
       THEN /\ scratch' = [scratch EXCEPT ![w] = Cleanup(@)]
            /\ entry' = [entry EXCEPT ![w] = 0]
            /\ ztotal' = [ztotal EXCEPT ![w] = 0]
       ELSE UNCHANGED zipVars

\* worker_process_file(file_path): the branch on the path's extension.
StartOf(path_suffix) ==
    CASE path_suffix = ".zip" -> "zip_enter"
      [] path_suffix = ".xml" -> "iter"
      [] OTHER -> "skip"

\* A pool process takes the next submitted file and calls
\* worker_process_file on it.  The idle processes of the pool are alike:
\* the one of lowest number stands for whichever of them takes the file.
TakeTask(w) ==
    /\ cpc = "collect"
    /\ w <= num_workers
    /\ pc[w] = "idle"
    /\ \A v \in 1..(w - 1) : pc[v] # "idle"
    /\ next_task <= Len(file_paths)
    /\ file' = [file EXCEPT ![w] = file_paths[next_task]]
    /\ next_task' = next_task + 1
    /\ pc' = [pc EXCEPT ![w] = StartOf(suffix)]
    /\ pos' = [pos EXCEPT ![w] = 0]
    /\ records' = [records EXCEPT ![w] = <<>>]
    /\ total' = [total EXCEPT ![w] = 0]
    /\ handed' = [handed EXCEPT ![w] = <<>>]
    /\ UNCHANGED <<dedupVars, parseVars, ret, ubVars, dbVars, seen_store, faults_left, result,
                   collected, completed, total_processed, error_files,
                   parse_errors, cpc, paramVars, zipVars, mainVars>>

\* The path is neither an archive nor an XML file: (file_path, 0, None).
SkipFile(w) ==
    /\ pc[w] = "skip"
    /\ XmlEnds(w)
    /\ CallReturns(w, ResultTuple(file[w], 0, NoError))
    /\ UNCHANGED <<dedupVars, parseVars, dbVars, seen_store, faults_left, next_task, collected,
                   completed, total_processed, error_files, parse_errors, cpc,
                   paramVars, zipVars>>

\* A buffer flushed only once it holds more than the threshold.
OverFull(buffer) == Len(buffer) > BATCH_SIZE

\* if len(records) >= BATCH_SIZE
IsFull(buffer) == Len(buffer) >= BATCH_SIZE

\* One round of the iterparse loop: the next case-file element is parsed, its
\* record buffered, and a full buffer is handed to upsert_batch.
ParseElement(w) ==
    /\ pc[w] = "iter"
    /\ pos[w] < Len(CurrentDoc(w).elements)
    /\ LET record == parse_case_file(CurrentDoc(w).elements[pos[w] + 1])
           buffer == IF record # NoRecord THEN Append(records[w], record)
                     ELSE records[w]
       IN  /\ records' = [records EXCEPT ![w] = buffer]
           /\ IF IsFull(buffer)
              THEN /\ pc' = [pc EXCEPT ![w] = "call"]
                   /\ ret' = [ret EXCEPT ![w] = "loop"]
                   /\ handed' = [handed EXCEPT ![w] = Append(@, buffer)]
              ELSE UNCHANGED <<pc, ret, handed>>
    /\ pos' = [pos EXCEPT ![w] = @ + 1]
    /\ UNCHANGED <<dedupVars, parseVars, ubVars, dbVars, seen_store, faults_left, file, total,
                   next_task, result, collected, completed, total_processed,
                   error_files, parse_errors, cpc, paramVars, zipVars,
                   mainVars>>

\* The document is malformed at this point: iterparse raises ParseError,
\* process_xml_file logs it and returns what it has counted.
ParseError(w) ==
    /\ pc[w] = "iter"
    /\ pos[w] = Len(CurrentDoc(w).elements)
    /\ CurrentDoc(w).malformed
    /\ parse_errors' = parse_errors \cup {file[w]}
    /\ XmlReturns(w, AfterParseError(file[w], total[w]))
    /\ UNCHANGED <<dedupVars, parseVars, dbVars, seen_store, faults_left, next_task, collected,
                   completed, total_processed, error_files, cpc, paramVars>>

\* The document ends: a non-empty remainder is handed to upsert_batch,
\* otherwise the count is returned.
EndOfDocument(w) ==
    /\ pc[w] = "iter"
    /\ pos[w] = Len(CurrentDoc(w).elements)
    /\ ~CurrentDoc(w).malformed
    /\ IF records[w] # <<>>
       THEN /\ pc' = [pc EXCEPT ![w] = "call"]
            /\ ret' = [ret EXCEPT ![w] = "end"]
            /\ handed' = [handed EXCEPT ![w] = Append(@, records[w])]
            /\ UNCHANGED <<records, ubVars, file, pos, total, result, zipVars,
                           mainVars>>
       ELSE XmlReturns(w, ResultTuple(file[w], total[w], NoError))
    /\ UNCHANGED <<dedupVars, parseVars, dbVars, seen_store, faults_left, next_task, collected,
                   completed, total_processed, error_files, parse_errors, cpc,
                   paramVars>>

\* upsert_batch returned to process_xml_file: the count grows; inside the loop
\* the buffer is reset, after the loop the file is done.
AfterUpsert(w) ==
    /\ pc[w] = "returned"
    /\ ret[w] \in {"loop", "end"}
    /\ IF ret[w] = "loop"
       THEN /\ total' = [total EXCEPT ![w] = @ + inserted[w]]
            /\ records' = [records EXCEPT ![w] = <<>>]
            /\ pc' = [pc EXCEPT ![w] = "iter"]
            /\ ret' = [ret EXCEPT ![w] = "none"]
            /\ attempt' = [attempt EXCEPT ![w] = 0]
            /\ last_error' = [last_error EXCEPT ![w] = NoError]
            /\ conn' = [conn EXCEPT ![w] = "None"]
            /\ slept' = [slept EXCEPT ![w] = <<>>]
            /\ exc' = [exc EXCEPT ![w] = NoError]
            /\ inserted' = [inserted EXCEPT ![w] = 0]
            /\ undone' = [undone EXCEPT ![w] = 0]
            /\ UNCHANGED <<sessions, sleep_time, file, pos, result, handed,
                           zipVars, mainVars>>
       ELSE XmlReturns(w, ResultTuple(file[w], total[w] + inserted[w], NoError))
    /\ UNCHANGED <<dedupVars, parseVars, dbVars, seen_store, faults_left, next_task, collected,
                   completed, total_processed, error_files, parse_errors, cpc,
                   paramVars>>

\* upsert_batch raised: process_xml_file logs and re-raises.
UpsertRaised(w) ==
    /\ pc[w] = "raised"
    /\ ret[w] \in {"loop", "end"}
    /\ XmlRaises(w, exc[w])
    /\ UNCHANGED <<dedupVars, parseVars, dbVars, seen_store, faults_left, next_task, collected,
                   completed, total_processed, error_files, parse_errors, cpc,
                   paramVars>>

ProcessFile(w) ==
    \/ TakeTask(w)
    \/ ParseElement(w)
    \/ ParseError(w)
    \/ EndOfDocument(w)
    \/ AfterUpsert(w)
    \/ UpsertRaised(w)

(***************************************************************************)
(* process_zip_file.                                                       *)
(***************************************************************************)
\* Exceptions of the unpack step.
UnpackErrors == {"BadZipFile", "OSError"}

ZipUnchanged ==
    UNCHANGED <<dedupVars, parseVars, records, ret, ubVars, dbVars, seen_store, pos, total,
                handed, next_task, collected, completed, total_processed,
                error_files, parse_errors, cpc, paramVars>>

\* with tempfile.TemporaryDirectory() as tmpdir: with zipfile.ZipFile(...)
ZipEnter(w) ==
    /\ pc[w] = "zip_enter"
    /\ scratch' = [scratch EXCEPT ![w] = Dir({})]
    /\ entry' = [entry EXCEPT ![w] = 1]
    /\ ztotal' = [ztotal EXCEPT ![w] = 0]
    /\ pc' = [pc EXCEPT ![w] = "zip_entry"]
    /\ ZipUnchanged
    /\ UNCHANGED <<file, result, faults_left, mainVars>>

\* The archive cannot be read: ZipFile raises inside the outer with block.
ZipOpenFails(w) ==
    /\ pc[w] = "zip_enter"
    /\ faults_left # 0
    /\ faults_left' = Spend(faults_left)
    /\ scratch' = [scratch EXCEPT ![w] = Cleanup(Dir({}))]
    /\ CallRaises(w, "BadZipFile")
    /\ ZipUnchanged
    /\ UNCHANGED <<entry, ztotal>>

\* for name in zf.namelist(): an entry that ends in .xml is extracted and
\* process_xml_file is called on it; any other entry is passed over.
ZipEntry(w) ==
    /\ pc[w] = "zip_entry"
    /\ entry[w] <= Len(Archive(file[w]))
    /\ IF Archive(file[w])[entry[w]].xml
       THEN /\ scratch' = [scratch EXCEPT ![w] = Dir(@[1] \cup {entry[w]})]
            /\ pc' = [pc EXCEPT ![w] = "iter"]
            /\ UNCHANGED entry
       ELSE /\ entry' = [entry EXCEPT ![w] = @ + 1]
            /\ UNCHANGED <<scratch, pc>>
    /\ ZipUnchanged
    /\ UNCHANGED <<file, result, faults_left, ztotal, mainVars>>

\* zf.extract raises after it has created the file.
ExtractFails(w) ==
    /\ pc[w] = "zip_entry"
    /\ entry[w] <= Len(Archive(file[w]))
    /\ Archive(file[w])[entry[w]].xml
    /\ faults_left # 0
    /\ faults_left' = Spend(faults_left)
    /\ scratch' = [scratch EXCEPT ![w] = Cleanup(Dir(@[1] \cup {entry[w]}))]
    /\ entry' = [entry EXCEPT ![w] = 0]
    /\ ztotal' = [ztotal EXCEPT ![w] = 0]
    /\ CallRaises(w, "OSError")
    /\ ZipUnchanged

\* os.remove(xml_path), and the loop goes on to the next entry
ZipRemove(w) ==
    /\ pc[w] = "zip_remove"
    /\ scratch' = [scratch EXCEPT ![w] = Dir(@[1] \ {entry[w]})]
    /\ entry' = [entry EXCEPT ![w] = @ + 1]
    /\ pc' = [pc EXCEPT ![w] = "zip_entry"]
    /\ ZipUnchanged
    /\ UNCHANGED <<file, result, faults_left, ztotal, mainVars>>

\* The loop is over: both with blocks are left and total is returned.
ZipExit(w) ==
    /\ pc[w] = "zip_entry"
    /\ entry[w] > Len(Archive(file[w]))
    /\ scratch' = [scratch EXCEPT ![w] = Cleanup(@)]
    /\ entry' = [entry EXCEPT ![w] = 0]
    /\ ztotal' = [ztotal EXCEPT ![w] = 0]
    /\ CallReturns(w, ResultTuple(file[w], ztotal[w], NoError))
    /\ ZipUnchanged
    /\ UNCHANGED faults_left

ProcessZip(w) ==
    \/ ZipEnter(w)
    \/ ZipOpenFails(w)
    \/ ZipEntry(w)
    \/ ExtractFails(w)
    \/ ZipRemove(w)
    \/ ZipExit(w)

(***************************************************************************)
(* process_files_parallel, the coordinator.                                *)
(***************************************************************************)
\* if error: the truth value of the error string
Truthy(error) == error # NoError /\ error # ""

\* A total that holds the count of the last result only.
KeepLast(sum, count, error) == IF Truthy(error) THEN sum ELSE count

\* total_processed += count, for a result without error
Accumulate(sum, count, error) == IF Truthy(error) THEN sum ELSE sum + count

Submitted == {file_paths[i] : i \in 1..Len(file_paths)}

\* One round of the as_completed loop: the future of a finished file.
Collect(f) ==
    /\ cpc = "collect"
    /\ f \in Submitted
    /\ f \notin collected
    /\ result[f] # NoResult
    /\ collected' = collected \cup {f}
    /\ completed' = completed + 1
    /\ total_processed' = Accumulate(total_processed, result[f][2], result[f][3])
    /\ error_files' = IF Truthy(result[f][3]) THEN error_files \cup {result[f][1]}
                      ELSE error_files
    /\ UNCHANGED <<dedupVars, parseVars, pc, records, ret, ubVars, dbVars, seen_store, faults_left,
                   file, pos, total, handed, next_task, result, parse_errors,
                   cpc, paramVars, zipVars, mainVars>>

\* Every future has been taken: the pool shuts down and the total is returned.
ReturnTotal ==
    /\ cpc = "collect"
    /\ collected = Submitted
    /\ cpc' = "returned"
    /\ UNCHANGED <<dedupVars, parseVars, pc, records, ret, ubVars, dbVars, seen_store, faults_left,
                   file, pos, total, handed, next_task, result, collected,
                   completed, total_processed, error_files, parse_errors,
                   paramVars, zipVars, mainVars>>

\* process_files_parallel(file_paths, num_workers) is called: every file is
\* submitted and the pool's processes are idle.
PoolStarts(paths, workers) ==
    /\ file_paths = paths
    /\ num_workers = workers
    /\ next_task = 1
    /\ result = [f \in File |-> NoResult]
    /\ collected = {}
    /\ completed = 0
    /\ total_processed = 0
    /\ error_files = {}
    /\ cpc = "collect"

Init ==
    /\ DedupIdle
    /\ ParseIdle
    /\ WorkersIdle
    /\ file = [w \in Worker |-> 0]
    /\ pos = [w \in Worker |-> 0]
    /\ total = [w \in Worker |-> 0]
    /\ handed = [w \in Worker |-> <<>>]
    /\ parse_errors = {}
    /\ PoolStarts([i \in 1..NumFiles |-> i], NumWorkers)
    /\ suffix = ".xml"
    /\ ZipIdle
    /\ MainIdle
    /\ trademarks = {}
    /\ SecondaryTablesOf({})

Next ==
    \/ \E w \in Worker : ProcessFile(w)
    \/ \E w \in Worker : UpsertBatch(w)
    \/ \E f \in File : Collect(f)
    \/ ReturnTotal

Spec == Init /\ [][Next]_vars

(***************************************************************************)
(* A worker process is terminated from outside.                            *)
(***************************************************************************)
\* What is left of a terminated process: its memory is gone, the server
\* rolls back the transaction of its closed connection; undone keeps the
\* number of rows that transaction had written and total the records of the
\* batches the process had committed for its file.
Terminated(ws) ==
    /\ pc' = [w \in Worker |-> IF w \in ws THEN "dead" ELSE pc[w]]
    /\ undone' = [w \in Worker |->
                     IF w \in ws THEN Len(tx_rows[w]) ELSE undone[w]]
    /\ tx_rows' = [w \in Worker |-> IF w \in ws THEN <<>> ELSE tx_rows[w]]
    /\ file' = [w \in Worker |-> IF w \in ws THEN 0 ELSE file[w]]
    /\ pos' = [w \in Worker |-> IF w \in ws THEN 0 ELSE pos[w]]
    /\ handed' = [w \in Worker |-> IF w \in ws THEN <<>> ELSE handed[w]]
    /\ records' = [w \in Worker |-> IF w \in ws THEN <<>> ELSE records[w]]
    /\ ret' = [w \in Worker |-> IF w \in ws THEN "none" ELSE ret[w]]
    /\ attempt' = [w \in Worker |-> IF w \in ws THEN 0 ELSE attempt[w]]
    /\ last_error' = [w \in Worker |->
                         IF w \in ws THEN NoError ELSE last_error[w]]
    /\ conn' = [w \in Worker |-> IF w \in ws THEN "None" ELSE conn[w]]
    /\ slept' = [w \in Worker |-> IF w \in ws THEN <<>> ELSE slept[w]]
    /\ exc' = [w \in Worker |-> IF w \in ws THEN NoError ELSE exc[w]]
    /\ inserted' = [w \in Worker |-> IF w \in ws THEN 0 ELSE inserted[w]]
    /\ sessions' = [w \in Worker |-> IF w \in ws THEN 0 ELSE sessions[w]]
    /\ sleep_time' = [w \in Worker |->
                         IF w \in ws THEN NoSleep ELSE sleep_time[w]]

\* The host terminates a worker that is processing a file.
Kill(w) ==
    /\ cpc = "collect"
    /\ pc[w] \notin {"idle", "dead"}
    /\ faults_left # 0
    /\ faults_left' = Spend(faults_left)
    /\ trademarks' = Rollback(trademarks, tx_rows[w], tx_time[w])
    /\ Terminated({w})
    /\ UNCHANGED <<dedupVars, parseVars, sideVars, tx_time, now, seen_store, total, next_task, result,
                   collected, completed, total_processed, error_files,
                   parse_errors, cpc, paramVars, zipVars, mainVars>>

\* The future of a file that has no result when the pool breaks:
\* future.result() raises BrokenProcessPool, which the coordinator logs as
\* the file's error.
BrokenFuture(f) == ResultTuple(f, 0, str("BrokenProcessPool"))

\* The executor notices the dead process: it terminates the other processes
\* of the pool and fails every future that has no result.
PoolBreaks ==
    /\ cpc = "collect"
    /\ \E w \in Worker : pc[w] = "dead"
    /\ \/ \E w \in Worker : pc[w] # "dead"
       \/ \E f \in Submitted : result[f] = NoResult
    /\ trademarks' = trademarks
    /\ Terminated({w \in Worker : pc[w] # "dead"})
    /\ result' = [f \in File |->
                     IF f \in Submitted /\ result[f] = NoResult
                     THEN BrokenFuture(f) ELSE result[f]]
    /\ next_task' = Len(file_paths) + 1
    /\ UNCHANGED <<dedupVars, parseVars, sideVars, tx_time, now, seen_store, faults_left, total,
                   collected, completed, total_processed, error_files,
                   parse_errors, cpc, paramVars, zipVars, mainVars>>

NextKill ==
    \/ Next
    \/ \E w \in Worker : Kill(w)
    \/ PoolBreaks

SpecKill == Init /\ [][NextKill]_vars

(***************************************************************************)
(* main, the ingestion entry point, and a second run of it.                *)
(***************************************************************************)
\* init_database: DROP TABLE IF EXISTS trademarks CASCADE, then CREATE TABLE
init_database(table) == {}

\* sorted(glob.glob(pattern)): no file, or the one file of the directory
GlobResults == {<<>>, <<1>>}

\* main up to the call that processes the input: the schema is reset when
\* --init-db or --bulk-dir is given; a single path is processed by main
\* itself; a directory is globbed and, unless nothing matches, handed to
\* process_files_parallel; without any of the three options main logs an
\* error and exits with status 1, as it does when nothing matches.
MainStart ==
    /\ mpc = "start"
    /\ IF args.init_db \/ args.mode = "bulk-dir"
       THEN /\ trademark_statements' = init_database(trademark_statements)
            /\ trademark_owners' = init_database(trademark_owners)
            /\ trademarks' = init_database(trademarks)
       ELSE UNCHANGED <<trademarks, sideVars>>
    /\ IF args.mode = "xml-path"
       THEN /\ mpc' = "single"
            /\ file' = [file EXCEPT ![Caller] = 1]
            /\ pc' = [pc EXCEPT ![Caller] =
                         IF suffix = ".zip" THEN "zip_enter" ELSE "iter"]
            /\ UNCHANGED <<file_paths, num_workers, next_task, collected,
                           completed, total_processed, error_files, cpc,
                           exit_status>>
       ELSE IF args.mode = "none"
       THEN /\ mpc' = "exited"
            /\ exit_status' = 1
            /\ UNCHANGED <<file, pc, file_paths, num_workers, next_task,
                           collected, completed, total_processed, error_files,
                           cpc>>
       ELSE \E files \in GlobResults :
               IF files = <<>>
               THEN /\ mpc' = "exited"
                    /\ exit_status' = 1
                    /\ UNCHANGED <<file, pc, file_paths, num_workers, next_task,
                                   collected, completed, total_processed,
                                   error_files, cpc>>
               ELSE /\ mpc' = "parallel"
                    /\ file_paths' = files
                    /\ num_workers' = args.workers
                    /\ next_task' = 1
                    /\ collected' = {}
                    /\ completed' = 0
                    /\ total_processed' = 0
                    /\ error_files' = {}
                    /\ cpc' = "collect"
                    /\ UNCHANGED <<file, pc, exit_status>>
    /\ UNCHANGED <<dedupVars, parseVars, records, ret, ubVars, tx_rows, tx_time, now,
                   seen_store, faults_left, pos, total, handed, result,
                   parse_errors, suffix, zipVars, args, run, total_loaded,
                   summary>>

\* process_files_parallel has returned: the summary is logged and main ends.
MainAfterParallel ==
    /\ mpc = "parallel"
    /\ cpc = "returned"
    /\ total_loaded' = total_processed
    /\ summary' = TRUE
    /\ exit_status' = 0
    /\ mpc' = "exited"
    /\ UNCHANGED <<dedupVars, parseVars, pc, records, ret, ubVars, dbVars, seen_store,
                   faults_left, file, pos, total, handed, next_task, result,
                   collected, completed, total_processed, error_files,
                   parse_errors, cpc, paramVars, zipVars, args, run>>

\* The same command line is run again in a new process; the store is what
\* the first run left.
Rerun ==
    /\ mpc = "exited"
    /\ run = "first"
    /\ run' = "rerun"
    /\ mpc' = "start"
    /\ seen_store' = Append(seen_store, trademarks)
    /\ total_loaded' = 0
    /\ summary' = FALSE
    /\ exit_status' = Running
    /\ file_paths' = <<>>
    /\ num_workers' = 0
    /\ next_task' = 1
    /\ result' = [f \in File |-> NoResult]
    /\ collected' = {}
    /\ completed' = 0
    /\ total_processed' = 0
    /\ error_files' = {}
    /\ parse_errors' = {}
    /\ cpc' = "none"
    /\ UNCHANGED <<dedupVars, parseVars, pc, records, ret, ubVars, dbVars, faults_left,
                   file, pos, total, handed, suffix, zipVars, args>>

\* The input option of the command line, "none" when there is none.
Modes == {"xml-path", "bulk-dir", "daily-dir", "none"}

Suffixes == {".xml", ".zip", ".txt"}

InitMain ==
    /\ DedupIdle
    /\ ParseIdle
    /\ WorkersIdle
    /\ file = [w \in Worker |-> 0]
    /\ pos = [w \in Worker |-> 0]
    /\ total = [w \in Worker |-> 0]
    /\ handed = [w \in Worker |-> <<>>]
    /\ next_task = 1
    /\ result = [f \in File |-> NoResult]
    /\ collected = {}
    /\ completed = 0
    /\ total_processed = 0
    /\ error_files = {}
    /\ parse_errors = {}
    /\ cpc = "none"
    /\ file_paths = <<>>
    /\ num_workers = 0
    /\ suffix \in Suffixes
    /\ ZipIdle
    /\ mpc = "start"
    /\ args \in [mode : Modes, init_db : BOOLEAN, workers : {Caller}]
    /\ run = "first"
    /\ total_loaded = 0
    /\ summary = FALSE
    /\ exit_status = Running
    /\ trademarks \in InitTables
    /\ SecondaryTablesOf(trademarks)

NextMain ==
    \/ MainStart
    \/ MainAfterParallel
    \/ Rerun
    \/ \E w \in Worker : ProcessFile(w)
    \/ \E w \in Worker : SkipFile(w)
    \/ \E w \in Worker : ProcessZip(w)
    \/ \E w \in Worker : UpsertBatch(w)
    \/ \E f \in File : Collect(f)
    \/ ReturnTotal

SpecMain == InitMain /\ [][NextMain]_vars

(***************************************************************************)
(* Specification of parse_case_file alone: one element is parsed and the   *)
(* record, if there is one, is upserted as a batch of its own.             *)
(***************************************************************************)
\* Texts of a date child: eight characters (a year 2023, 2024 or 0000; in
\* the place of the month 00, 02, 06, 13, " 6", "A6"; in the place of the
\* day 00, 05, 29, 30, 31, 32, " 5", "5 ", "A5"), no text, "0", seven and
\* nine digits, and a valid date with whitespace around it.
DateTexts ==
    LET YearTexts == {<<2, 0, 2, 3>>, <<2, 0, 2, 4>>, <<0, 0, 0, 0>>}
        MonthTexts == {<<0, 0>>, <<0, 2>>, <<0, 6>>, <<1, 3>>, <<32, 6>>,
                       <<65, 6>>}
        DayTexts == {<<0, 0>>, <<0, 5>>, <<2, 9>>, <<3, 0>>, <<3, 1>>,
                     <<3, 2>>, <<32, 5>>, <<5, 32>>, <<65, 5>>}
    IN  { y \o m \o d : y \in YearTexts, m \in MonthTexts, d \in DayTexts }
        \cup { NoneText, <<0>>, <<2, 0, 2, 3, 0, 6, 1>>,
               <<2, 0, 2, 3, 0, 6, 1, 5, 0>>,
               <<32, 2, 0, 2, 3, 0, 6, 1, 5, 10>> }

\* Texts of a registration-number child: none, the placeholder, a number,
\* six and eight zeros, "0", and the placeholder with whitespace around it.
RegistrationTexts ==
    { NoneText, PlaceholderRegistration, <<1, 2, 3, 4, 5, 6, 7>>,
      <<0, 0, 0, 0, 0, 0>>, <<0, 0, 0, 0, 0, 0, 0, 0>>, <<0>>,
      <<32, 0, 0, 0, 0, 0, 0, 0, 10>>, <<0, 0, 0, 0, 0, 0, 1>> }

\* Texts of a serial-number child: a serial, none, and whitespace only.
SerialTexts == {<<7>>, NoneText, <<32>>}

\* The classification groups: international codes "025", " 025", "009"
\* and a child without text, and US codes "100".
ClassGroups ==
    [international_code :
        { <<>>, << <<0, 2, 5>> >>, << <<0, 0, 9>> >>,
          << <<0, 2, 5>>, <<0, 2, 5>> >>, << <<0, 0, 9>>, <<0, 2, 5>> >>,
          << <<32, 0, 2, 5>>, NoneText >> },
     us_code : { <<>>, << <<1, 0, 0>>, <<1, 0, 0>> >> }]

\* An element with the classification groups of its classifications child.
Classified(elem, groups) ==
    [k \in DOMAIN elem \cup {"classifications"} |->
        IF k = "classifications" THEN groups ELSE elem[k]]

\* The elements parsed: every date text in both date children, every
\* registration text with every serial text, and every sequence of
\* classification groups.
ParseElements ==
    { Element(<<7>>, NoneText, d) : d \in DateTexts }
    \cup { ElementWithHeader(<<7>>, NoneText, <<2, 0, 2, 4, 0, 1, 0, 1>>,
                             NoneText, <<84>>, d) : d \in DateTexts }
    \cup { Element(s, r, <<2, 0, 2, 4, 0, 1, 0, 1>>) :
             s \in SerialTexts, r \in RegistrationTexts }
    \cup { Classified(Element(<<7>>, <<1, 2, 3, 4, 5, 6, 7>>,
                              <<2, 0, 2, 4, 0, 1, 0, 1>>), groups) :
             groups \in SeqsUpTo(ClassGroups, MaxGroups) }

InitParse ==
    /\ DedupIdle
    /\ WorkersIdle
    /\ PipelineIdle
    /\ pcf_elem \in ParseElements
    /\ pcf_record = NoRecord
    /\ pcf_pc = "call"
    /\ trademarks = {}
    /\ SecondaryTablesOf({})

\* record = parse_case_file(elem)
ParseCaseFile ==
    /\ pcf_pc = "call"
    /\ pcf_pc' = "parsed"
    /\ LET record == parse_case_file(pcf_elem)
           groups == Get(pcf_elem, "classifications", <<>>)
       IN  IF record = NoRecord THEN pcf_record' = NoRecord
           ELSE \E intl \in classes(extend(groups, "international_code")),
                   us \in classes(extend(groups, "us_code")) :
                   pcf_record' = WithClasses(record, intl, us)
    /\ UNCHANGED <<pcf_elem, dedupVars, pc, records, ret, ubVars, dbVars,
                   seen_store, faults_left, pipeVars>>

\* if record: records.append(record), and the buffer is flushed
StoreRecord ==
    /\ pcf_pc = "parsed"
    /\ pcf_record # NoRecord
    /\ pcf_pc' = "stored"
    /\ records' = [records EXCEPT ![Caller] = <<pcf_record>>]
    /\ pc' = [pc EXCEPT ![Caller] = "call"]
    /\ ret' = [ret EXCEPT ![Caller] = "stop"]
    /\ UNCHANGED <<pcf_elem, pcf_record, dedupVars, ubVars, dbVars, seen_store,
                   faults_left, pipeVars>>

NextParse ==
    \/ ParseCaseFile
    \/ StoreRecord
    \/ \E w \in Worker : UpsertBatch(w)

SpecParse == InitParse /\ [][NextParse]_vars

(***************************************************************************)
(* Properties of _deduplicate_records.                                     *)
(***************************************************************************)
\* The order the specification gives the dates: a null date is older than
\* every real date, and real dates compare by the calendar.
DateOlderOrSame(a, b) == a = NoneDate \/ (b # NoneDate /\ a <= b)

DatePair(r) ==
    << Get(r, "transaction_date", NoneDate), Get(r, "status_date", NoneDate) >>

PairOlderOrSame(p, q) ==
    \/ (p[1] # q[1] /\ DateOlderOrSame(p[1], q[1]))
    \/ (p[1] = q[1] /\ DateOlderOrSame(p[2], q[2]))

SerialsOf(batch) == {batch[i].serial_number : i \in 1..Len(batch)}

\* C3: _deduplicate_records returns exactly one record per distinct serial of
\* the batch, every returned record is an entry of the batch, and the entry
\* returned for a serial has the greatest (transaction_date, status_date)
\* pair of that serial's entries, transaction date first, a null date being
\* older than any real date.
C3_DedupKeepsNewestPerSerial ==
    dd_pc = "returned" =>
        /\ SerialsOf(dd_result) = SerialsOf(dd_records)
        /\ Len(dd_result) = Cardinality(SerialsOf(dd_records))
        /\ \A i \in 1..Len(dd_result) :
              /\ \E j \in 1..Len(dd_records) : dd_records[j] = dd_result[i]
              /\ \A j \in 1..Len(dd_records) :
                    dd_records[j].serial_number = dd_result[i].serial_number
                        => PairOlderOrSame(DatePair(dd_records[j]),
                                           DatePair(dd_result[i]))

HasNoDate(r) == DatePair(r) = <<NoneDate, NoneDate>>

\* C4: when a batch holds, for one serial, an entry whose transaction date and
\* status date are both null and an entry with a real date, whatever that
\* date is, the entry without dates is not the one _deduplicate_records keeps.
C4_NullDatesNeverKept ==
    dd_pc = "returned" =>
        \A i \in 1..Len(dd_result) :
            (\E j \in 1..Len(dd_records) :
                /\ dd_records[j].serial_number = dd_result[i].serial_number
                /\ ~HasNoDate(dd_records[j]))
            => ~HasNoDate(dd_result[i])

(***************************************************************************)
(* Properties of upsert_batch.                                             *)
(***************************************************************************)
\* C1: with max_retries = 5, a call of upsert_batch whose every attempt ends
\* in a deadlock or lock-timeout signal retries after each of the first 5
\* failures, and the failure that propagates is the 6th.
C1_SixthFailurePropagates ==
    \A w \in Worker :
        (pc[w] = "raised" /\ exc[w] \in TransientErrors)
            => /\ Len(slept[w]) = max_retries
               /\ attempt[w] + 1 = max_retries + 1

\* The rows of a table without the refreshed update timestamp.
MappedRows(table) ==
    { [c \in MappedColumns \cup {"serial_number"} |-> t[c]] : t \in table }

\* C5: once the caller has upserted the same batch a second time, the table
\* holds the same rows (every mapped column, the update timestamp aside) and
\* as many rows as after the first upsert.
C5_UpsertTwiceSameAsOnce ==
    (pc[Caller] = "returned" /\ ret[Caller] = "stop")
        => /\ MappedRows(trademarks) = MappedRows(seen_store[2])
           /\ Cardinality(trademarks) = Cardinality(seen_store[2])

\* C5 witness: the second upsert of a non-empty batch has committed and has
\* refreshed the timestamp of a row.
C5_Witness ==
    /\ pc[Caller] = "returned" /\ ret[Caller] = "stop"
    /\ Len(records[Caller]) = MaxUpsertLen
    /\ trademarks # seen_store[2]

\* C6: the tuples a batch write has written are in strictly ascending order
\* of their serial numbers, whatever the order of the batch, so no serial is
\* written twice.
C6_WritesAscendBySerial ==
    \A w \in Worker :
        \A i, j \in 1..Len(tx_rows[w]) :
            i < j => StrLess(tx_rows[w][i].serial_number,
                             tx_rows[w][j].serial_number)

\* C6 witness: a batch whose serials come in descending order ("2" before
\* "10") has been written in full.
C6_Witness ==
    \E w \in Worker :
        /\ pc[w] = "write"
        /\ Len(records[w]) = 2
        /\ StrLess(records[w][2].serial_number, records[w][1].serial_number)
        /\ Len(tx_rows[w]) = 2

ColumnDefault(c) ==
    IF c = "standard_characters" THEN FALSE
    ELSE IF c \in {"transaction_date", "status_date"} THEN NoneDate
    ELSE NoneText

\* C7: when upsert_batch has returned, every record of the deduplicated batch
\* has exactly one row, and each mapped column of that row is the incoming
\* value, null where the record has none, whether the serial was stored
\* before or not.
C7_FullReplace ==
    pc[Caller] = "returned" =>
        LET unique == _deduplicate_records(records[Caller])
        IN  \A i \in 1..Len(unique) :
                /\ Cardinality({t \in trademarks :
                        t.serial_number = unique[i].serial_number}) = 1
                /\ \A t \in trademarks :
                       t.serial_number = unique[i].serial_number
                           => \A c \in MappedColumns :
                                 t[c] = Get(unique[i], c, ColumnDefault(c))

\* C7 witness: the first upsert returned; the batch held a record of a serial
\* that was not stored and a record without header fields of the serial whose
\* stored row had them.
C7_Witness ==
    /\ pc[Caller] = "returned" /\ ret[Caller] = "again"
    /\ seen_store[1] = {StoredRow}
    /\ \E i, j \in 1..Len(records[Caller]) :
          /\ records[Caller][i].serial_number = StoredRow.serial_number
          /\ "status_date" \notin DOMAIN records[Caller][i]
          /\ records[Caller][j].serial_number # StoredRow.serial_number

\* C9: when an attempt fails with an error other than deadlock or lock
\* timeout, the handler rolls the transaction back, leaves the table as it
\* was, does not sleep, does not start another attempt and raises.
C9_OtherErrorNotRetried ==
    [][\A w \in Worker :
          (pc[w] = "except" /\ exc[w] \notin TransientErrors
                /\ pc'[w] # "except")
            => /\ pc'[w] = "raised"
               /\ attempt'[w] = attempt[w]
               /\ slept'[w] = slept[w]
               /\ tx_rows'[w] = <<>>
               /\ conn'[w] # "open"
               /\ trademarks' = trademarks]_vars

\* C9 witness: a non-transient error was raised on a later attempt, after
\* rows had been written, and has propagated.
C9_Witness ==
    \E w \in Worker :
        /\ pc[w] = "raised"
        /\ exc[w] \in OtherErrors
        /\ attempt[w] > 0
        /\ undone[w] > 0

\* C10: no step replaces the persisted row of a serial by one with an earlier
\* transaction date.
C10_TransactionDateNeverDecreases ==
    [][\A t \in trademarks : \A u \in trademarks' :
          (/\ u.serial_number = t.serial_number
           /\ t.transaction_date # NoneDate
           /\ u.transaction_date # NoneDate)
            => u.transaction_date >= t.transaction_date]_vars

(***************************************************************************)
(* Properties of the pipeline.                                             *)
(***************************************************************************)
\* The records a document yields, and those of them flushed in full batches.
RecordsIn(f) ==
    Len(SelectSeq(Doc(f).elements, LAMBDA e : parse_case_file(e) # NoRecord))

FlushedInFullBatches(f) == BATCH_SIZE * (RecordsIn(f) \div BATCH_SIZE)

RECURSIVE SumOfCounts(_)
SumOfCounts(files) ==
    IF files = {} THEN 0
    ELSE LET f == CHOOSE g \in files : TRUE
         IN  result[f][2] + SumOfCounts(files \ {f})

C8_BatchAllOrNothing ==
    [][ \/ trademarks' = trademarks
        \/ \E w \in Worker :
              LET unique == _deduplicate_records(records[w])
                  serials == SerialsOf(records[w])
              IN  /\ pc[w] = "write" /\ pc'[w] = "returned"
                  /\ \A i \in 1..Len(unique) :
                        \E t \in trademarks' :
                            /\ t.serial_number = unique[i].serial_number
                            /\ \A c \in MappedColumns :
                                  t[c] = Get(unique[i], c, ColumnDefault(c))
                  /\ {t \in trademarks' : t.serial_number \notin serials}
                        = {t \in trademarks : t.serial_number \notin serials}
      ]_vars

\* C8 witness: upsert_batch has raised after its last attempt had written one
\* row of a batch of two serials; the rollback discarded that row.
C8_Witness ==
    \E w \in Worker :
        /\ pc[w] = "raised"
        /\ undone[w] = 1
        /\ Cardinality(SerialsOf(records[w])) = 2

\* What parse_case_file returns for each element of each document.
ParsedDocuments ==
    [d \in 1..Len(Documents) |->
        [i \in 1..Len(Documents[d].elements) |->
            parse_case_file(Documents[d].elements[i])]]

Parsed(f) == ParsedDocuments[((f - 1) % Len(Documents)) + 1]

\* The records process_xml_file extracts from a document, in document order.
FileRecords(f) ==
    SelectSeq(Parsed(f), LAMBDA r : r # NoRecord)

\* C11: when the first file is the only file processed so far and it has
\* completed without error, the persisted row of each serial of the file
\* carries the latest (transaction_date, status_date) pair among the file's
\* entries of that serial.
C11_FileNewestStatePersisted ==
    (/\ next_task = 2
     /\ result[1] # NoResult
     /\ ~Truthy(result[1][3])
     /\ ~Doc(1).malformed)
        => \A i \in 1..Len(FileRecords(1)) :
              \E t \in trademarks :
                  /\ t.serial_number = FileRecords(1)[i].serial_number
                  /\ PairOlderOrSame(DatePair(FileRecords(1)[i]),
                                     <<t.transaction_date, t.status_date>>)

\* Worker w has a tuple left to write and the row lock of its serial is held
\* by the open transaction of worker v.
WaitsFor(w, v) ==
    /\ w # v
    /\ pc[w] = "write"
    /\ LET values == trademark_values(records[w])
           i == Len(tx_rows[w]) + 1
       IN  /\ i <= Len(values)
           /\ \E j \in 1..Len(tx_rows[v]) :
                 tx_rows[v][j].serial_number = values[i].serial_number

\* C12: in no reachable state is there a set of workers each of which waits
\* for a row lock held by another worker of the set: the waits of concurrent
\* batch writes never form a cycle.
C12_NoLockCycle ==
    ~ \E S \in SUBSET Worker :
          /\ S # {}
          /\ \A w \in S : \E v \in S : WaitsFor(w, v)

\* C12 witness: two workers write batches that share two serials, and one
\* waits for a row lock the other holds.
C12_Witness ==
    \E w, v \in Worker :
        /\ WaitsFor(w, v)
        /\ pc[v] = "write"
        /\ Cardinality(SerialsOf(records[w]) \cap SerialsOf(records[v])) = 2

\* C13: a file whose processing raised has the result (file, 0, error), and
\* once the coordinator has collected that result it has reported the error
\* as the file's error.
C13_WorkerErrorReported ==
    \A f \in File :
        (result[f] # NoResult /\ result[f][3] # NoError)
            => /\ result[f][1] = f
               /\ result[f][2] = 0
               /\ f \in collected => f \in error_files

\* C14: a file is handed to a worker only while it has neither a result nor a
\* worker, so no file is dispatched twice; and when process_files_parallel
\* has returned, every file has a result, every result has been collected,
\* and the returned total is the sum of the counts of the results that carry
\* no error.
C14_EveryFileOnceAndSummed ==
    /\ [](cpc = "returned" =>
            /\ collected = File
            /\ \A f \in File : result[f] # NoResult /\ result[f][1] = f
            /\ completed = Cardinality(File)
            /\ total_processed =
                  SumOfCounts({f \in File : ~Truthy(result[f][3])}))
    /\ [][\A w \in Worker :
            (file'[w] # file[w] /\ file'[w] # 0)
                => /\ result[file'[w]] = NoResult
                   /\ \A v \in Worker : file[v] # file'[w]]_vars

\* C14 witness: the run has returned; one file's result carried an error
\* and the counts of the other results make up a positive total.
C14_Witness ==
    /\ cpc = "returned"
    /\ error_files # {}
    /\ total_processed > 0
    /\ Cardinality({f \in File : ~Truthy(result[f][3]) /\ result[f][2] > 0}) >= 1

\* The records extracted from the first n elements of a file's document.
ExtractedUpTo(f, n) ==
    SelectSeq(SubSeq(Parsed(f), 1, n), LAMBDA r : r # NoRecord)

RECURSIVE Flatten(_)
Flatten(batches) ==
    IF batches = <<>> THEN <<>> ELSE Head(batches) \o Flatten(Tail(batches))

\* The records of the buffer that have not been handed to upsert_batch yet.
Pending(w) == IF pc[w] = "iter" THEN records[w] ELSE <<>>

\* While a file is streamed the buffer never exceeds the threshold and is
\* below it whenever the next element is read, every batch handed over is
\* non-empty, and the batches handed over followed by the buffer are the
\* records extracted so far, in document order.
BufferBounded ==
    \A w \in Worker :
        file[w] # 0 =>
            /\ Len(records[w]) <= BATCH_SIZE
            /\ pc[w] = "iter" => Len(records[w]) < BATCH_SIZE
            /\ \A i \in 1..Len(handed[w]) :
                  /\ handed[w][i] # <<>>
                  /\ Len(handed[w][i]) <= BATCH_SIZE
                  /\ i < Len(handed[w]) => Len(handed[w][i]) = BATCH_SIZE
            /\ Flatten(handed[w]) \o Pending(w)
                  = ExtractedUpTo(file[w], pos[w])

\* C15 as stated: the buffer stays within the threshold, and whenever
\* process_xml_file ends, every record it extracted has been handed to
\* upsert_batch in exactly one batch, in document order.
C15_EveryRecordHandedOnce ==
    /\ []BufferBounded
    /\ [][\A w \in Worker :
            (file[w] # 0 /\ file'[w] = 0)
                => Flatten(handed[w]) = ExtractedUpTo(file[w], pos[w])]_vars

\* C15 amended: the buffer stays within the threshold; when process_xml_file
\* returns after the end of a well-formed document, the batches handed to
\* upsert_batch are the document's records in document order, every batch
\* but the last of threshold size; when it ends on a parse error or on an
\* error of upsert_batch, the records handed over and the records still in
\* the buffer are the records extracted, and those in the buffer are dropped.
C15_RecordsHandedOnceUnlessAborted ==
    /\ []BufferBounded
    /\ [][\A w \in Worker :
            (file[w] # 0 /\ file'[w] = 0)
                => LET f == file[w]
                   IN  /\ Flatten(handed[w]) \o Pending(w)
                             = ExtractedUpTo(f, pos[w])
                       /\ (~Doc(f).malformed /\ result'[f][3] = NoError)
                             => /\ Flatten(handed[w]) = FileRecords(f)
                                /\ Pending(w) = <<>>
                       /\ (Pending(w) # <<>>) => f \in parse_errors']_vars

\* C15 witness: the remainder of a file of three records has been flushed
\* after one full batch, and upsert_batch has returned.
C15_Witness ==
    \E w \in Worker :
        /\ pc[w] = "returned" /\ ret[w] = "end"
        /\ Len(handed[w]) = 2
        /\ Len(handed[w][1]) = BATCH_SIZE
        /\ Len(handed[w][2]) < BATCH_SIZE
        /\ Flatten(handed[w]) = FileRecords(file[w])

(***************************************************************************)
(* Properties of process_zip_file and of main.                             *)
(***************************************************************************)
\* C16: a process that is not inside process_zip_file, because the call has
\* not begun or has returned or raised, has no scratch directory: the
\* directory of the call and every file extracted into it are gone.
C16_ScratchRemoved ==
    \A w \in Worker : entry[w] = 0 => scratch[w] = NoDir

\* C16 witness: a worker's process_zip_file raised a write error of a
\* contained document, which was extracted at that time, and no scratch
\* directory is left.
C16_Witness ==
    /\ suffix = ".zip"
    /\ result[1] = ResultTuple(1, 0, str("OperationalError"))
    /\ \A w \in Worker : scratch[w] = NoDir /\ pc[w] = "idle"

\* C17: in each input mode, once main has ended after it began to process a
\* source file, it has logged its summary report and the exit status is 0,
\* whatever errors the processing of the files met.
C17_FileErrorNotFatal ==
    (mpc = "exited" /\ (args.mode = "xml-path" \/ file_paths # <<>>))
        => exit_status = 0 /\ summary

\* The records of a document, and the batches process_xml_file hands to
\* upsert_batch for it when every call returns: a malformed document loses
\* the remainder that is not a full batch.
DocRecords(doc) ==
    LET parsed == [i \in 1..Len(doc.elements) |-> parse_case_file(doc.elements[i])]
    IN  SelectSeq(parsed, LAMBDA r : r # NoRecord)

RECURSIVE Batches(_)
Batches(recs) ==
    IF recs = <<>> THEN <<>>
    ELSE IF Len(recs) <= BATCH_SIZE THEN <<recs>>
    ELSE <<SubSeq(recs, 1, BATCH_SIZE)>>
            \o Batches(SubSeq(recs, BATCH_SIZE + 1, Len(recs)))

DocBatches(doc) ==
    IF doc.malformed
    THEN SelectSeq(Batches(DocRecords(doc)), LAMBDA b : Len(b) = BATCH_SIZE)
    ELSE Batches(DocRecords(doc))

\* The batches of the run's one source path, by its extension and the mode.
RunBatches ==
    CASE suffix = ".zip" -> DocBatches(Archive(1)[2].doc)
                               \o DocBatches(Archive(1)[3].doc)
      [] suffix = ".txt" /\ args.mode # "xml-path" -> <<>>
      [] OTHER -> DocBatches(Doc(1))

\* The rows one complete run persists, batch after batch.
RECURSIVE Persist(_, _)
Persist(table, batches) ==
    IF batches = <<>> THEN table
    ELSE Persist(ApplyRows(table, trademark_values(Head(batches)), 0),
                 Tail(batches))

\* The second run of main has ended with its summary and without an error
\* of its source file.
RerunComplete ==
    /\ run = "rerun"
    /\ mpc = "exited"
    /\ summary
    /\ args.mode # "xml-path" => result[1][3] = NoError

\* C18: in each input mode, while and after main is run a second time with
\* the same command line (which does not ask for a schema reset) over the
\* same input, every serial the first run left in the store still has a row,
\* and once the second run has completed, the store holds for every serial of
\* the input the row one complete run persists.
C18_RerunKeepsRows ==
    /\ (run = "rerun" /\ ~args.init_db) =>
          \A t \in seen_store[1] :
              \E u \in trademarks : u.serial_number = t.serial_number
    /\ RerunComplete =>
          MappedRows(Persist({}, RunBatches)) \subseteq MappedRows(trademarks)

(***************************************************************************)
(* Properties of the store under concurrent workers.                       *)
(***************************************************************************)
\* C19: in every reachable state the primary table holds at most one row
\* per serial number, and no row has an empty serial number.
C19_OneRowPerSerial ==
    \A t \in trademarks :
        /\ t.serial_number # NoneText
        /\ \A u \in trademarks : u.serial_number = t.serial_number => u = t

\* C19 witness: two workers have each committed a batch that holds the same
\* serial, after an element without serial number was read.
C19_Witness ==
    \E w, v \in Worker :
        /\ w # v
        /\ pc[w] = "returned" /\ pc[v] = "returned"
        /\ SerialsOf(records[w]) \cap SerialsOf(records[v]) # {}
        /\ \E i \in 1..pos[w] :
              parse_case_file(Doc(file[w]).elements[i]) = NoRecord

\* C20: the committed table changes only by the commit of one worker's whole
\* deduplicated batch; the step that terminates a worker, and the step in
\* which the pool terminates the others, leave the committed table as it is
\* and discard what the open transactions had written: the batches committed
\* before stay, and a batch in flight is persisted whole or not at all.
C20_KillLosesOnlyInflightBatch ==
    [][ /\ \/ trademarks' = trademarks
           \/ \E w \in Worker :
                 LET unique == _deduplicate_records(records[w])
                     serials == SerialsOf(records[w])
                 IN  /\ pc[w] = "write" /\ pc'[w] = "returned"
                     /\ \A i \in 1..Len(unique) :
                           \E t \in trademarks' :
                               /\ t.serial_number = unique[i].serial_number
                               /\ \A c \in MappedColumns :
                                     t[c] = Get(unique[i], c, ColumnDefault(c))
                     /\ {t \in trademarks' : t.serial_number \notin serials}
                           = {t \in trademarks : t.serial_number \notin serials}
        /\ \A w \in Worker :
              (pc[w] # "dead" /\ pc'[w] = "dead")
                  => /\ trademarks' = trademarks
                     /\ tx_rows'[w] = <<>>
      ]_vars

\* C20 witness: a worker was terminated after it had committed a full batch
\* of its file and while its next transaction had written a row; the rows of
\* the committed batch are in the table.
C20_Witness ==
    \E w \in Worker :
        /\ pc[w] = "dead"
        /\ total[w] = BATCH_SIZE
        /\ undone[w] = 1
        /\ Cardinality(trademarks) = BATCH_SIZE

(***************************************************************************)
(* Properties of parse_date and parse_case_file.                           *)
(***************************************************************************)
\* A text of eight digits YYYYMMDD that names a day of the calendar.
IsCalendarDate(text) ==
    /\ Len(text) = 8
    /\ \A i \in 1..8 : IsDigit(text[i])
    /\ LET y == text[1] * 1000 + text[2] * 100 + text[3] * 10 + text[4]
           m == text[5] * 10 + text[6]
           d == text[7] * 10 + text[8]
       IN  y >= 1 /\ m \in 1..12 /\ d >= 1 /\ d <= DaysInMonth(y, m)

CalendarDateOf(text) ==
    (text[1] * 1000 + text[2] * 100 + text[3] * 10 + text[4]) * 10000
    + (text[5] * 10 + text[6]) * 100 + text[7] * 10 + text[8]

\* The date the specification gives a text: the calendar date of a valid
\* YYYYMMDD text, null for every other input.
DateOrNull(text) ==
    IF IsCalendarDate(text) THEN CalendarDateOf(text) ELSE NoneDate

\* C21: parse_date returns the calendar date for an 8-character YYYYMMDD
\* string that names a valid date and null for every other input (a missing
\* value, the empty string, "0", a string whose length is not 8, an
\* 8-character string that is not a valid calendar date); here for the
\* transaction date and the status date of a parsed element.
C21_ParseDateValidOrNull ==
    (pcf_pc # "call" /\ pcf_record # NoRecord) =>
        /\ pcf_record.transaction_date
              = DateOrNull(get_text(pcf_elem.transaction_date))
        /\ pcf_elem.header =>
              pcf_record.status_date = DateOrNull(get_text(pcf_elem.status_date))

\* The registration number the element gives, as get_text reads it.
GivenRegistration == get_text(pcf_elem.registration_number)

\* C22: for every case-file element whose registration number is the
\* all-zero placeholder "0000000", the record parse_case_file produces and the
\* row persisted from it have a null registration number; any other
\* registration number is kept as given.
C22_PlaceholderRegistrationIsNull ==
    (pcf_pc # "call" /\ pcf_record # NoRecord) =>
        LET expected == IF GivenRegistration = PlaceholderRegistration
                        THEN NoneText ELSE GivenRegistration
        IN  /\ pcf_record.registration_number = expected
            /\ \A t \in trademarks : t.registration_number = expected

\* The placeholder was parsed and the row of the record is committed with a
\* null registration number.
C22_Witness ==
    /\ pcf_pc = "stored"
    /\ pc[Caller] = "returned"
    /\ pcf_elem.registration_number = PlaceholderRegistration
    /\ \E t \in trademarks :
          /\ t.serial_number = pcf_record.serial_number
          /\ t.registration_number = NoneText

\* C23: the international and domestic classification sets produced by
\* parse_case_file contain each code at most once and contain exactly the
\* codes that occur in any of the element's classification groups.
C23_ClassificationSetsExact ==
    (pcf_pc # "call" /\ pcf_record # NoRecord) =>
        \A key \in {"international", "us"} :
            LET list == pcf_record[key \o "_classes"]
                groups == Get(pcf_elem, "classifications", <<>>)
                occurring ==
                    UNION { { strip(groups[g][key \o "_code"][i]) :
                                i \in { j \in 1..Len(groups[g][key \o "_code"]) :
                                          groups[g][key \o "_code"][j] # NoneText } }
                            : g \in 1..Len(groups) }
            IN  /\ \A i, j \in 1..Len(list) : list[i] = list[j] => i = j
                /\ {list[i] : i \in 1..Len(list)} = occurring

\* Two classification groups both hold the code "025", and the record's
\* international classes hold it once.
C23_Witness ==
    /\ pcf_pc = "parsed"
    /\ pcf_record # NoRecord
    /\ "classifications" \in DOMAIN pcf_elem
    /\ Len(pcf_elem.classifications) = 2
    /\ \A g \in 1..2 :
          \E i \in 1..Len(pcf_elem.classifications[g].international_code) :
              pcf_elem.classifications[g].international_code[i] = <<0, 2, 5>>
    /\ pcf_record.international_classes = << <<0, 2, 5>> >>

(***************************************************************************)
(* Properties of the connections and the backoff of upsert_batch.          *)
(***************************************************************************)
\* C24: on a deadlock or lock timeout in upsert_batch the failed attempt's
\* transaction is rolled back and its connection closed before the next
\* attempt opens a new connection; a worker never holds more than one open
\* connection, and no connection opened by upsert_batch stays open after it
\* returns or raises.
C24_OneConnectionClosedOnExit ==
    \A w \in Worker :
        /\ sessions[w] <= 1
        /\ pc[w] = "connect" => (sessions[w] = 0 /\ tx_rows[w] = <<>>)
        /\ pc[w] \in {"returned", "raised"} =>
              (sessions[w] = 0 /\ tx_rows[w] = <<>> /\ conn[w] # "open")

\* An attempt failed with a deadlock or lock timeout, and the next attempt
\* holds the one open connection.
C24_Witness ==
    \E w \in Worker :
        /\ attempt[w] >= 1
        /\ last_error[w] \in TransientErrors
        /\ pc[w] = "write"
        /\ conn[w] = "open"
        /\ sessions[w] = 1

\* C25: in upsert_batch the wait before the retry that follows the k-th
\* consecutive transient failure (k = 1, 2, ...) has base delay 2^(k-1) time
\* units, doubling with each attempt, plus a jitter in [0,1); no wait happens
\* after the failure that exhausts the retries.
C25_BackoffDoublesWithJitter ==
    \A w \in Worker :
        /\ Len(slept[w]) = attempt[w]
        /\ \A k \in 1..Len(slept[w]) : slept[w][k] = 2 ^ (k - 1)
        /\ \A k \in 2..Len(slept[w]) : slept[w][k] = 2 * slept[w][k - 1]
        /\ (pc[w] = "connect" /\ attempt[w] >= 1) =>
              /\ sleep_time[w] >= (2 ^ (attempt[w] - 1)) * JitterSteps
              /\ sleep_time[w] < (2 ^ (attempt[w] - 1) + 1) * JitterSteps
        /\ (pc[w] # "connect" \/ attempt[w] = 0) => sleep_time[w] = NoSleep
        /\ pc[w] = "raised" => Len(slept[w]) <= max_retries - 1

\* The fourth transient failure in a row is followed by a wait of 8 time
\* units and a jitter of one half.
C25_Witness ==
    \E w \in Worker :
        /\ pc[w] = "connect"
        /\ attempt[w] = 4
        /\ slept[w] = <<1, 2, 4, 8>>
        /\ sleep_time[w] = 8 * JitterSteps + 1

(***************************************************************************)
(* The tie-break of _deduplicate_records.                                  *)
(***************************************************************************)
\* The entries of the batch for a serial whose date pair is identical to the
\* pair at position i and which no entry of the serial sorts above; the sort
\* key is the date pair with a null date read as 1800-01-01.
TiedAtTop(batch, i) ==
    { j \in 1..Len(batch) :
        /\ batch[j].serial_number = batch[i].serial_number
        /\ DatePair(batch[j]) = DatePair(batch[i])
        /\ \A k \in 1..Len(batch) :
              batch[k].serial_number = batch[i].serial_number
                  => ~KeyLess(date_key(batch[i]), date_key(batch[k])) }

InvalidInvocationEnds == mpc = "start" /\ mpc' = "exited"

\* C27: an invalid invocation of the ingestion entry point (no input
\* specified, or a bulk or daily directory in which no file matches the
\* pattern) exits with non-zero status and leaves the persisted store exactly
\* as it was before the invocation; stated for the invocations that do not
\* ask for a reset of the schema with --init-db.
C27_InvalidInvocationLeavesStore ==
    [][(InvalidInvocationEnds /\ ~args.init_db) =>
          /\ exit_status' # 0
          /\ trademarks' = trademarks
          /\ trademark_statements' = trademark_statements
          /\ trademark_owners' = trademark_owners]_vars

(***************************************************************************)
(* The tables upsert_batch leaves alone.                                   *)
(***************************************************************************)
\* The serials of the batches the callers hold.
BatchSerials == UNION {SerialsOf(records[w]) : w \in Worker}

RowsPersisted(batches, table) ==
    \A s \in SerialsOf(Flatten(batches)) : \E t \in table : t.serial_number = s

\* C29: when a document-level parse error occurs part-way through a file in
\* process_xml_file, the batches flushed before the error stay persisted, the
\* records buffered since the last flush are never written, and the function
\* returns the count of the flushed batches instead of raising.
C29_ParseErrorKeepsFlushedBatches ==
    [][\A w \in Worker :
          (file[w] # 0 /\ file[w] \notin parse_errors /\ file[w] \in parse_errors')
              => /\ trademarks' = trademarks
                 /\ RowsPersisted(handed[w], trademarks')
                 /\ Flatten(handed[w]) \o records[w]
                       = ExtractedUpTo(file[w], pos[w])
                 /\ records'[w] = <<>>
                 /\ pc'[w] = "idle"
                 /\ result'[file[w]]
                       = <<file[w], Len(Flatten(handed[w])), NoError>>]_vars

\* The malformed file has ended on its parse error after one flushed batch:
\* its result carries the count of that batch and no error, the rows of the
\* batch are committed, and the record that was in the buffer has no row.
C29_Witness ==
    \E f \in File :
        /\ f \in parse_errors
        /\ Doc(f).malformed
        /\ result[f] = <<f, BATCH_SIZE, NoError>>
        /\ Len(FileRecords(f)) = BATCH_SIZE + 1
        /\ \A i \in 1..BATCH_SIZE :
              \E t \in trademarks :
                  t.serial_number = FileRecords(f)[i].serial_number
        /\ \A t \in trademarks :
              t.serial_number = FileRecords(f)[BATCH_SIZE + 1].serial_number
                  => t.transaction_date
                        # FileRecords(f)[BATCH_SIZE + 1].transaction_date

\* C30: when a batch write of a file fails for good (retries exhausted or
\* non-transient error) after k earlier batches of the same file were
\* committed, those k batches stay persisted, no later batch of the file is
\* attempted, and the worker's result for the file is (file, 0, error), so the
\* coordinator's total counts none of the file's records.
C30_FailedBatchZeroesFileCount ==
    /\ [][\A w \in Worker :
            (pc[w] = "raised" /\ ret[w] \in {"loop", "end"} /\ pc'[w] # "raised")
                => LET f == file[w]
                       k == Len(handed[w]) - 1
                   IN  /\ k >= 0
                       /\ total[w] = Len(Flatten(SubSeq(handed[w], 1, k)))
                       /\ trademarks' = trademarks
                       /\ RowsPersisted(SubSeq(handed[w], 1, k), trademarks')
                       /\ pc'[w] = "idle" /\ file'[w] = 0
                       /\ result'[f] = <<f, 0, str(exc[w])>>]_vars
    /\ [][\A f \in File :
            (f \in collected' /\ f \notin collected /\ result[f][3] # NoError)
                => total_processed' = total_processed]_vars

\* The run has returned: a file whose second batch failed after its first
\* was committed has the result (file, 0, error), the rows of the first
\* batch are there, and the total holds only the other file's records.
C30_Witness ==
    /\ cpc = "returned"
    /\ \E f, g \in File :
          /\ result[f][2] = 0
          /\ Truthy(result[f][3])
          /\ \A i \in 1..BATCH_SIZE :
                \E t \in trademarks :
                    t.serial_number = FileRecords(f)[i].serial_number
          /\ \E t \in trademarks :
                /\ t.serial_number = FileRecords(f)[1].serial_number
                /\ t.transaction_date = FileRecords(f)[1].transaction_date
          /\ g # f
          /\ result[g][3] = NoError
          /\ total_processed = result[g][2]

====
